---- MODULE Spec2Model ----
(***************************************************************************)
(* Portfolio analytics of Nobify: cost-basis tracking of a holding         *)
(* (calculateHoldingMetrics), price refresh (updateHoldingPrices),         *)
(* historical valuation (estimatePortfolioValueAtDate) and the daily       *)
(* return series (calculateDailyReturns), all of                           *)
(* backend/src/services/schedulerService.ts; with them the rate limiter    *)
(* of lib/cryptoApi.ts, the transaction and holding routes, the            *)
(* AlertScheduler and the alert evaluation with its cooldown.              *)
(*                                                                         *)
(* JavaScript numbers are modelled as exact rationals extended with the    *)
(* IEEE-754 specials +Infinity, -Infinity and NaN (division by zero is     *)
(* reachable in the code); binary rounding is not modelled.                *)
(***************************************************************************)
EXTENDS Integers, Sequences, FiniteSets, TLC

(***************************************************************************)
(* Bounds of the model.                                                    *)
(***************************************************************************)
MaxTx == 2
MaxDate == 2
MaxDays == 3
MaxPoints == 4
MaxCallers == 2
MaxTicks == 4
MaxAlertHours == 7

(***************************************************************************)
(* Numbers.  [n, d] with d > 0 is the rational n/d in lowest terms;        *)
(* d = 0 encodes the IEEE specials (n = 1: +Infinity, n = -1: -Infinity,   *)
(* n = 0: NaN); Null is the database/JavaScript null of a nullable field.  *)
(***************************************************************************)
Abs(x) == IF x < 0 THEN -x ELSE x

RECURSIVE GCD(_, _)
GCD(a, b) == IF b = 0 THEN a ELSE GCD(b, a % b)

Sign(x) == IF x > 0 THEN 1 ELSE IF x < 0 THEN -1 ELSE 0

Num(n, d) ==
  IF d = 0 THEN [n |-> Sign(n), d |-> 0]
  ELSE LET g == GCD(Abs(n), Abs(d))
           s == Sign(d)
       IN  [n |-> (s * n) \div g, d |-> (s * d) \div g]

N(i) == [n |-> i, d |-> 1]
NaN == [n |-> 0, d |-> 0]
PosInf == [n |-> 1, d |-> 0]
NegInf == [n |-> -1, d |-> 0]
Null == [n |-> 0, d |-> -1]
Zero == N(0)

IsNaN(x) == x.d = 0 /\ x.n = 0
IsInf(x) == x.d = 0 /\ x.n # 0
IsFinite(x) == x.d > 0

Neg(x) == [n |-> -x.n, d |-> x.d]

Add(x, y) ==
  IF IsNaN(x) \/ IsNaN(y) THEN NaN
  ELSE IF IsInf(x) /\ IsInf(y) THEN (IF x.n = y.n THEN x ELSE NaN)
  ELSE IF IsInf(x) THEN x
  ELSE IF IsInf(y) THEN y
  ELSE Num(x.n * y.d + y.n * x.d, x.d * y.d)

Sub(x, y) == Add(x, Neg(y))

Mul(x, y) ==
  IF IsNaN(x) \/ IsNaN(y) THEN NaN
  ELSE IF IsInf(x) \/ IsInf(y)
       THEN (IF x.n = 0 \/ y.n = 0 THEN NaN ELSE Num(Sign(x.n) * Sign(y.n), 0))
  ELSE Num(x.n * y.n, x.d * y.d)

Div(x, y) ==
  IF IsNaN(x) \/ IsNaN(y) THEN NaN
  ELSE IF IsInf(x) /\ IsInf(y) THEN NaN
  ELSE IF IsInf(y) THEN Zero
  ELSE IF IsInf(x) THEN Num(Sign(x.n) * (IF y.n < 0 THEN -1 ELSE 1), 0)
  ELSE IF y.n = 0 THEN (IF x.n = 0 THEN NaN ELSE Num(Sign(x.n), 0))
  ELSE Num(x.n * y.d, x.d * y.n)

\* x > y of JavaScript: false when either side is NaN
Gt(x, y) ==
  /\ ~IsNaN(x)
  /\ ~IsNaN(y)
  /\ IF IsInf(x) /\ IsInf(y) THEN x.n > y.n ELSE x.n * y.d > y.n * x.d

\* truthiness of a nullable number: null, 0 and NaN are falsy
Truthy(x) == x.d >= 0 /\ x.n # 0

\* x || y
OrElse(x, y) == IF Truthy(x) THEN x ELSE y

(***************************************************************************)
(* State.                                                                  *)
(***************************************************************************)
VARIABLES
  holdings,      \* PortfolioHolding rows of the user, one per token symbol
  transactions,  \* Transaction rows, in the order they were created
  rc,            \* the running calculateHoldingMetrics call
  recomputes,    \* per holding, the recomputes completed since its ledger last changed (0, 1, 2 = more)
  est,           \* the running estimatePortfolioValueAtDate call
  daily,         \* the running calculateDailyReturns call
  now,           \* the clock, in days
  metrics,       \* what the last calls of the exported metric calculators returned
  report,        \* the running getEnhancedPortfolioMetrics call
  limiter,       \* the rate limiter of the price API client and its callers
  put,           \* the running PUT /holdings/:id handler
  rcB,           \* a transaction mutation running concurrently with the one of rc
  scheduler,     \* the AlertScheduler and the evaluation it runs
  alerts,        \* Alert rows and the notifications sent for them
  refresh        \* what the last updateHoldingPrices call was given and returned

vars ==
  <<holdings, transactions, rc, recomputes, est, daily, now, metrics, report,
    limiter, put, rcB, scheduler, alerts, refresh>>

\* the components outside the portfolio analytics proper
others == <<limiter, put, rcB, scheduler, alerts, refresh>>

Symbols == {"BTC", "ETH"}
LedgerSymbols == {"BTC"}

TransactionType ==
  {"BUY", "SELL", "TRANSFER_IN", "TRANSFER_OUT", "STAKE", "UNSTAKE", "REWARD", "AIRDROP"}

Inflow == {"BUY", "TRANSFER_IN", "AIRDROP", "REWARD"}
Outflow == {"SELL", "TRANSFER_OUT"}

\* a PortfolioHolding row; present = FALSE: the user has no holding of the symbol
NoHolding ==
  [present |-> FALSE, currentAmount |-> Zero, averageCostBasis |-> Null,
   totalCostBasis |-> Null, currentPrice |-> Null, currentValue |-> Null,
   unrealizedPnL |-> Null, realizedPnL |-> Null, percentageChange |-> Null]

rcIdle ==
  [pc |-> "idle", holdingId |-> "", txs |-> <<>>, i |-> 0,
   totalAmount |-> Zero, totalCostBasis |-> Zero, realizedPnL |-> Zero]

\* what the price API answers for one symbol and date: an error (network,
\* timeout, rate limit) or a response whose usd price may be missing (Null)
NotAsked == [kind |-> "none", usd |-> Null]
ApiError == [kind |-> "error", usd |-> Null]
ApiOk(usd) == [kind |-> "ok", usd |-> usd]

estIdle ==
  [pc |-> "idle", targetDate |-> 0, txs |-> <<>>, i |-> 0, syms |-> <<>>,
   holdingsAtDate |-> [s \in Symbols |-> [amount |-> Zero, costBasis |-> Zero]],
   api |-> [s \in Symbols |-> NotAsked],
   totalValue |-> Zero]

dailyIdle ==
  [pc |-> "idle", days |-> 0, endDate |-> 0, startDate |-> 0, i |-> 0,
   dailyValues |-> <<>>, previousValue |-> Null]

\* the return values of calculateAdvancedMetrics, calculateRiskMetrics and
\* calculateBenchmarkComparisons: <<>> before the call, <<value>> after it
noMetrics == [advanced |-> <<>>, risk |-> <<>>, benchmarks |-> <<>>]

\* the sections of the report, the promises of Promise.all in its order
Sections ==
  <<"summary", "timeBasedPerformance", "advancedMetrics", "riskMetrics",
    "benchmarkComparisons">>

SectionNames == {Sections[k] : k \in 1..Len(Sections)}

\* state: "pending", "fulfilled" or "rejected"; result: <<value>> once fulfilled;
\* returned: <<report>> once the call has returned one
reportIdle ==
  [pc |-> "idle",
   state |-> [s \in SectionNames |-> "pending"],
   result |-> [s \in SectionNames |-> <<>>],
   returned |-> <<>>]

\* cryptoApi.ts: 1 second between calls, in milliseconds
API_RATE_LIMIT == 1000

\* the clock of the limiter advances in steps of half the limit
ClockStep == API_RATE_LIMIT \div 2

Callers == 1..MaxCallers

\* Date.now() at the start, far above the initial lastApiCall = 0
StartTime == 2 * API_RATE_LIMIT

\* pc of a caller: "idle", "waiting" (in the setTimeout until wakeAt) or
\* "calling" (past the limiter, its request sent); released: the times of the
\* last two requests released, oldest first
limiterInit ==
  [clock |-> StartTime, lastApiCall |-> 0,
   callers |-> [c \in Callers |-> [pc |-> "idle", wakeAt |-> 0]],
   released |-> <<>>]

\* pc: "idle", "recalc" (row updated, calculateHoldingMetrics running) or
\* "replied" (200 sent); holding: the row the response carries
putIdle == [pc |-> "idle", id |-> "", currentAmount |-> Null, holding |-> NoHolding]
\* the fields of an AlertScheduler; running: the calls of evaluateAllAlerts
\* under way; lastRun: what the last runEvaluation did ("none" before the first)
schedulerInit ==
  [isRunning |-> FALSE, intervalId |-> FALSE, evaluationInProgress |-> FALSE,
   running |-> 0, lastRun |-> "none"]

\* the active alerts of the database, a price alert and an airdrop alert, in
\* the order evaluateAllAlerts goes through them
AlertIds == <<"price", "airdrop">>

AlertNames == {AlertIds[k] : k \in 1..Len(AlertIds)}

\* the evaluateAllAlerts call: pc "idle", "find" (findMany pending), "check"
\* (alert i next), "sending" (sendNotificationToUser pending for alert i) or
\* "done" (returned); found: lastTriggered of the rows findMany returned
evalIdle == [pc |-> "idle", i |-> 0, found |-> [a \in AlertNames |-> Null]]

\* clock: Date.now() in milliseconds; lastTriggered: the column of the
\* rows; notified: when the last notification of the alert was sent (Null: never)
alertsInit ==
  [clock |-> 0,
   lastTriggered |-> [a \in AlertNames |-> Null],
   notified |-> [a \in AlertNames |-> Null],
   eval |-> evalIdle]
\* prices: what the loop of updateHoldingPrices looked the symbols up in;
\* stats: the counts it returned; summary: <<value>> when the call was made by
\* getPortfolioSummary, which returned value
refreshIdle ==
  [prices |-> [s \in Symbols |-> Null], stats |-> [updated |-> 0, failed |-> 0],
   summary |-> <<>>]

Init ==
  /\ holdings = [s \in Symbols |-> NoHolding]
  /\ transactions = <<>>
  /\ rc = rcIdle
  /\ recomputes = [s \in Symbols |-> 0]
  /\ est = estIdle
  /\ daily = dailyIdle
  /\ now = MaxDate
  /\ metrics = noMetrics
  /\ report = reportIdle
  /\ limiter = limiterInit
  /\ put = putIdle
  /\ rcB = rcIdle
  /\ scheduler = schedulerInit
  /\ alerts = alertsInit
  /\ refresh = refreshIdle

\* The loops of calculateHoldingMetrics and of the replay run without an
\* await: no other handler runs while one of them is under way.
Yielded == rc.pc # "loop" /\ est.pc # "replay"

(***************************************************************************)
(* POST /holdings                                                          *)
(***************************************************************************)
CreateHolding(s, currentAmount) ==
  /\ Yielded
  /\ ~holdings[s].present
  /\ holdings' = [holdings EXCEPT ![s] =
                    [NoHolding EXCEPT !.present = TRUE, !.currentAmount = currentAmount]]
  /\ UNCHANGED <<transactions, rc, recomputes, est, daily, now, metrics, report, others>>

(***************************************************************************)
(* POST /transactions, addTransaction                                      *)
(***************************************************************************)
\* totalValue || (pricePerToken && amount ? pricePerToken * amount : undefined)
calculatedTotalValue(amount, pricePerToken, totalValue) ==
  OrElse(totalValue,
         IF Truthy(pricePerToken) /\ Truthy(amount) THEN Mul(pricePerToken, amount) ELSE Null)

AddTransaction(holdingId, type, amount, pricePerToken, totalValue, date) ==
  /\ Yielded
  /\ rc.pc = "idle"
  /\ Len(transactions) < MaxTx
  /\ holdings[holdingId].present
  /\ transactions' = Append(transactions,
       [holdingId |-> holdingId, type |-> type, amount |-> amount,
        pricePerToken |-> pricePerToken,
        totalValue |-> calculatedTotalValue(amount, pricePerToken, totalValue),
        date |-> date])
  /\ rc' = [rcIdle EXCEPT !.pc = "read", !.holdingId = holdingId]
  /\ recomputes' = [recomputes EXCEPT ![holdingId] = 0]
  /\ UNCHANGED <<holdings, est, daily, now, metrics, report, others>>

(***************************************************************************)
(* calculateHoldingMetrics                                                 *)
(***************************************************************************)
\* a direct call of the exported function
CalculateHoldingMetrics(holdingId) ==
  /\ Yielded
  /\ rc.pc = "idle"
  /\ holdings[holdingId].present
  /\ rc' = [rcIdle EXCEPT !.pc = "read", !.holdingId = holdingId]
  /\ UNCHANGED <<holdings, transactions, recomputes, est, daily, now, metrics, report, others>>

\* include: { transactions: true }: the holding's rows with no orderBy, which
\* the database returns in the order it stores them, here the order of creation
HoldingTransactions(holdingId) ==
  SelectSeq(transactions, LAMBDA t : t.holdingId = holdingId)

\* a variant that starts the running totals from the stored fields
RcReadStored ==
  /\ Yielded
  /\ rc.pc = "read"
  /\ rc' = [rc EXCEPT !.pc = "loop", !.txs = HoldingTransactions(rc.holdingId), !.i = 1,
                      !.totalAmount = holdings[rc.holdingId].currentAmount,
                      !.totalCostBasis = OrElse(holdings[rc.holdingId].totalCostBasis, Zero),
                      !.realizedPnL = OrElse(holdings[rc.holdingId].realizedPnL, Zero)]
  /\ UNCHANGED <<holdings, transactions, recomputes, est, daily, now, metrics, report, others>>

RcRead ==
  /\ Yielded
  /\ rc.pc = "read"
  /\ rc' = [rc EXCEPT !.pc = "loop", !.txs = HoldingTransactions(rc.holdingId), !.i = 1]
  /\ UNCHANGED <<holdings, transactions, recomputes, est, daily, now, metrics, report, others>>

\* const price = pricePerToken || 0; const value = totalValue || (amount * price)
TxValue(transaction) ==
  OrElse(transaction.totalValue,
         Mul(transaction.amount, OrElse(transaction.pricePerToken, Zero)))

\* a variant that realizes cost on every outflow, TRANSFER_OUT included
MetricsStepAnyOutflow(acc, transaction) ==
  LET amount == transaction.amount
      value == TxValue(transaction)
  IN  IF transaction.type \in Inflow
      THEN [acc EXCEPT !.totalAmount = Add(acc.totalAmount, amount),
                       !.totalCostBasis = Add(acc.totalCostBasis, value)]
      ELSE IF transaction.type \in Outflow
      THEN LET totalAmount == Sub(acc.totalAmount, amount)
           IN  IF Gt(acc.totalCostBasis, Zero)
               THEN LET avgCostBasis == Div(acc.totalCostBasis, Add(totalAmount, amount))
                        costOfSold == Mul(avgCostBasis, amount)
                    IN  [acc EXCEPT !.totalAmount = totalAmount,
                                    !.realizedPnL = Add(acc.realizedPnL, Sub(value, costOfSold)),
                                    !.totalCostBasis = Sub(acc.totalCostBasis, costOfSold)]
               ELSE [acc EXCEPT !.totalAmount = totalAmount]
      ELSE acc

\* one iteration of the loop over holding.transactions
MetricsStep(acc, transaction) ==
  LET amount == transaction.amount
      value == TxValue(transaction)
  IN  IF transaction.type \in Inflow
      THEN [acc EXCEPT !.totalAmount = Add(acc.totalAmount, amount),
                       !.totalCostBasis = Add(acc.totalCostBasis, value)]
      ELSE IF transaction.type \in Outflow
      THEN LET totalAmount == Sub(acc.totalAmount, amount)
           IN  IF transaction.type = "SELL" /\ Gt(acc.totalCostBasis, Zero)
               THEN LET avgCostBasis == Div(acc.totalCostBasis, Add(totalAmount, amount))
                        costOfSold == Mul(avgCostBasis, amount)
                    IN  [acc EXCEPT !.totalAmount = totalAmount,
                                    !.realizedPnL = Add(acc.realizedPnL, Sub(value, costOfSold)),
                                    !.totalCostBasis = Sub(acc.totalCostBasis, costOfSold)]
               ELSE [acc EXCEPT !.totalAmount = totalAmount]
      ELSE acc

RcStep ==
  /\ rc.pc = "loop"
  /\ rc.i <= Len(rc.txs)
  /\ rc' = [MetricsStep(rc, rc.txs[rc.i]) EXCEPT !.i = rc.i + 1]
  /\ UNCHANGED <<holdings, transactions, recomputes, est, daily, now, metrics, report, others>>

\* prisma.portfolioHolding.update with the computed metrics
RcWrite ==
  /\ rc.pc = "loop"
  /\ rc.i > Len(rc.txs)
  /\ holdings' = [holdings EXCEPT ![rc.holdingId] =
       [@ EXCEPT !.currentAmount = rc.totalAmount,
                 !.averageCostBasis = IF Gt(rc.totalAmount, Zero)
                                      THEN Div(rc.totalCostBasis, rc.totalAmount)
                                      ELSE Null,
                 !.totalCostBasis = rc.totalCostBasis,
                 !.realizedPnL = rc.realizedPnL]]
  /\ recomputes' = [recomputes EXCEPT ![rc.holdingId] = IF @ = 0 THEN 1 ELSE 2]
  /\ rc' = rcIdle
  /\ UNCHANGED <<transactions, est, daily, now, metrics, report, others>>

(***************************************************************************)
(* updateHoldingPrices                                                     *)
(***************************************************************************)
\* what getPrices maps a symbol to: Null for no entry, else the usd price
\* (0 is the fallback of a failed request)
PriceData == {Null, Zero, N(2)}

\* batchUpdatePrices: the fetched prices when one of them is valid, else,
\* after the retries, the fallback structure with usd 0 for every symbol
batchUpdatePrices(fetched) ==
  IF \E s \in Symbols : fetched[s] # Null /\ Gt(fetched[s], Zero)
  THEN fetched
  ELSE [s \in Symbols |-> Zero]

\* the row written for one holding, priceData being its entry of prices
HoldingPriceUpdate(holding, priceData) ==
  IF priceData = Null
  THEN holding
  ELSE LET currentPrice == priceData
           valued == Gt(currentPrice, Zero) /\ Gt(holding.currentAmount, Zero)
           currentValue == IF valued THEN Mul(holding.currentAmount, currentPrice) ELSE Null
           based == valued /\ Truthy(holding.totalCostBasis) /\ Gt(holding.totalCostBasis, Zero)
           unrealizedPnL == IF based THEN Sub(currentValue, holding.totalCostBasis) ELSE Null
           percentageChange ==
             IF based THEN Mul(Div(unrealizedPnL, holding.totalCostBasis), N(100)) ELSE Null
       IN  [holding EXCEPT !.currentPrice = IF Gt(currentPrice, Zero) THEN currentPrice ELSE Null,
                           !.currentValue = currentValue,
                           !.unrealizedPnL = unrealizedPnL,
                           !.percentageChange = percentageChange]

\* { updated, failed }: a holding without price data is counted as failed,
\* every holding whose row is written as updated
PriceUpdateStats(hs, prices) ==
  [updated |-> Cardinality({s \in Symbols : hs[s].present /\ prices[s] # Null}),
   failed |-> Cardinality({s \in Symbols : hs[s].present /\ prices[s] = Null})]

UpdateHoldingPrices(fetched) ==
  /\ Yielded
  /\ \E s \in Symbols : holdings[s].present
  /\ LET prices == batchUpdatePrices(fetched)
     IN  /\ holdings' = [s \in Symbols |->
              IF holdings[s].present THEN HoldingPriceUpdate(holdings[s], prices[s])
              ELSE holdings[s]]
         /\ refresh' = [prices |-> prices, stats |-> PriceUpdateStats(holdings, prices),
                        summary |-> <<>>]
  /\ UNCHANGED <<transactions, rc, recomputes, est, daily, now, metrics, report,
                 limiter, put, rcB, scheduler, alerts>>

(***************************************************************************)
(* estimatePortfolioValueAtDate                                            *)
(***************************************************************************)
\* orderBy: { date: 'asc' }; rows of equal date keep their stored order
RECURSIVE SortByDate(_)
SortByDate(txs) ==
  IF Len(txs) <= 1 THEN txs
  ELSE LET rest == SortByDate(SubSeq(txs, 1, Len(txs) - 1))
           last == txs[Len(txs)]
           before == SelectSeq(rest, LAMBDA t : t.date <= last.date)
           after == SelectSeq(rest, LAMBDA t : t.date > last.date)
       IN  before \o <<last>> \o after

\* where: { date: { lte: targetDate } }, orderBy: { date: 'asc' }
TransactionsUpTo(targetDate) ==
  SortByDate(SelectSeq(transactions, LAMBDA t : t.date <= targetDate))

EstStart(targetDate) ==
  /\ Yielded
  /\ rc.pc = "idle"
  /\ est.pc \in {"idle", "done"}
  /\ est' = [estIdle EXCEPT !.pc = "replay", !.targetDate = targetDate,
                            !.txs = TransactionsUpTo(targetDate), !.i = 1]
  /\ UNCHANGED <<holdings, transactions, rc, recomputes, daily, now, metrics, report, others>>

\* one iteration of the replay loop on the entry of the transaction's symbol
ReplayStep(holding, transaction) ==
  LET amount == transaction.amount
      value == OrElse(transaction.totalValue,
                      Mul(OrElse(transaction.pricePerToken, Zero), amount))
  IN  IF transaction.type \in Inflow
      THEN [amount |-> Add(holding.amount, amount),
            costBasis |-> Add(holding.costBasis, value)]
      ELSE IF transaction.type \in Outflow
      THEN LET after == Sub(holding.amount, amount)
           IN  IF Gt(after, Zero)
               THEN LET ratio == Div(amount, Add(after, amount))
                    IN  [amount |-> after,
                         costBasis |-> Mul(holding.costBasis, Sub(N(1), ratio))]
               ELSE [amount |-> after, costBasis |-> holding.costBasis]
      ELSE holding

InSeq(x, seq) == \E k \in 1..Len(seq) : seq[k] = x

EstReplay ==
  /\ est.pc = "replay"
  /\ est.i <= Len(est.txs)
  /\ LET transaction == est.txs[est.i]
         symbol == transaction.holdingId
     IN  est' = [est EXCEPT
           !.i = est.i + 1,
           !.syms = IF InSeq(symbol, est.syms) THEN @ ELSE Append(@, symbol),
           !.holdingsAtDate[symbol] = ReplayStep(@, transaction)]
  /\ UNCHANGED <<holdings, transactions, rc, recomputes, daily, now, metrics, report, others>>

\* the replay is over: the loop over Object.entries(holdingsAtDate) begins
EstReplayEnd ==
  /\ est.pc = "replay"
  /\ est.i > Len(est.txs)
  /\ est' = [est EXCEPT !.pc = IF Len(est.syms) = 0 THEN "done" ELSE "price", !.i = 1]
  /\ UNCHANGED <<holdings, transactions, rc, recomputes, daily, now, metrics, report, others>>

\* getHistoricalPrice: price || null of the response, null on any error
getHistoricalPrice(api) ==
  IF api.kind = "error" THEN Null ELSE OrElse(api.usd, Null)

\* a variant without the cost-basis fallback
PriceContributionNoFallback(holding, historicalPrice) ==
  IF Truthy(historicalPrice)
  THEN Mul(holding.amount, historicalPrice)
  ELSE Zero

\* what one symbol adds to totalValue, given the price the lookup returned
PriceContribution(holding, historicalPrice) ==
  IF Truthy(historicalPrice)
  THEN Mul(holding.amount, historicalPrice)
  ELSE holding.costBasis

\* a variant in which a failed lookup ends the pricing loop
EstPriceAbort(api) ==
  /\ Yielded
  /\ est.pc = "price"
  /\ est.i <= Len(est.syms)
  /\ LET symbol == est.syms[est.i]
         holding == est.holdingsAtDate[symbol]
         last == est.i = Len(est.syms)
     IN  IF Gt(holding.amount, Zero)
         THEN /\ api # NotAsked
              /\ est' = [est EXCEPT
                !.i = est.i + 1,
                !.pc = IF last \/ api.kind = "error" THEN "done" ELSE "price",
                !.api[symbol] = api,
                !.totalValue = Add(@, PriceContribution(holding, getHistoricalPrice(api)))]
         ELSE /\ api = NotAsked
              /\ est' = [est EXCEPT !.i = est.i + 1,
                                    !.pc = IF last THEN "done" ELSE "price"]
  /\ UNCHANGED <<holdings, transactions, rc, recomputes, daily, now, metrics, report, others>>

\* one iteration of the pricing loop; api is the answer of the price API,
\* asked only for a symbol of positive amount
EstPrice(api) ==
  /\ Yielded
  /\ est.pc = "price"
  /\ est.i <= Len(est.syms)
  /\ LET symbol == est.syms[est.i]
         holding == est.holdingsAtDate[symbol]
         last == est.i = Len(est.syms)
     IN  IF Gt(holding.amount, Zero)
         THEN /\ api # NotAsked
              /\ est' = [est EXCEPT
                !.i = est.i + 1,
                !.pc = IF last THEN "done" ELSE "price",
                !.api[symbol] = api,
                !.totalValue = Add(@, PriceContribution(holding, getHistoricalPrice(api)))]
         ELSE /\ api = NotAsked
              /\ est' = [est EXCEPT !.i = est.i + 1,
                                    !.pc = IF last THEN "done" ELSE "price"]
  /\ UNCHANGED <<holdings, transactions, rc, recomputes, daily, now, metrics, report, others>>

Dates == 1..MaxDate
ValuationInputs == {<<N(1), N(2), Null>>, <<N(2), Null, N(3)>>}

ApiOutcomes == {ApiError, ApiOk(Null), ApiOk(Zero), ApiOk(N(3))}

(***************************************************************************)
(* calculateDailyReturns                                                   *)
(***************************************************************************)
\* the replay loop over the first k transactions of a list
RECURSIVE Replayed(_, _)
Replayed(txs, k) ==
  IF k = 0
  THEN [syms |-> <<>>, holdingsAtDate |-> estIdle.holdingsAtDate]
  ELSE LET r == Replayed(txs, k - 1)
           symbol == txs[k].holdingId
       IN  [syms |-> IF InSeq(symbol, r.syms) THEN r.syms ELSE Append(r.syms, symbol),
            holdingsAtDate |->
              [r.holdingsAtDate EXCEPT ![symbol] = ReplayStep(@, txs[k])]]

\* the pricing loop over the first k symbols, apis[s] being the answer of the
\* price API for symbol s
RECURSIVE Priced(_, _, _, _)
Priced(syms, holdingsAtDate, apis, k) ==
  IF k = 0 THEN Zero
  ELSE LET holding == holdingsAtDate[syms[k]]
           rest == Priced(syms, holdingsAtDate, apis, k - 1)
       IN  IF Gt(holding.amount, Zero)
           THEN Add(rest, PriceContribution(holding, getHistoricalPrice(apis[syms[k]])))
           ELSE rest

\* a whole call of estimatePortfolioValueAtDate (the ledger read succeeds)
estimatePortfolioValueAtDate(targetDate, apis) ==
  LET txs == TransactionsUpTo(targetDate)
      r == Replayed(txs, Len(txs))
  IN  Priced(r.syms, r.holdingsAtDate, apis, Len(r.syms))

\* days * 24 * 60 * 60 * 1000 ms, the clock of the model counting in days
DayMs(days) == days

DailyStart(days) ==
  /\ Yielded
  /\ rc.pc = "idle"
  /\ daily.pc \in {"idle", "done"}
  /\ daily' = [dailyIdle EXCEPT !.pc = "loop", !.days = days, !.endDate = now,
                                !.startDate = now - DayMs(days)]
  /\ metrics' = noMetrics
  /\ UNCHANGED <<holdings, transactions, rc, recomputes, est, now, report, others>>

\* one iteration of the loop over the days
DailyStep(apis) ==
  /\ Yielded
  /\ daily.pc = "loop"
  /\ daily.i < daily.days
  /\ LET currentDate == daily.startDate + DayMs(daily.i)
         portfolioValue == estimatePortfolioValueAtDate(currentDate, apis)
         previousValue == daily.previousValue
         dailyReturn == IF previousValue # Null /\ Gt(previousValue, Zero)
                        THEN Mul(Div(Sub(portfolioValue, previousValue), previousValue), N(100))
                        ELSE Zero
     IN  daily' = [daily EXCEPT
           !.dailyValues = Append(@, [date |-> currentDate, value |-> portfolioValue,
                                      return |-> dailyReturn]),
           !.previousValue = portfolioValue,
           !.i = daily.i + 1]
  /\ UNCHANGED <<holdings, transactions, rc, recomputes, est, now, metrics, report, others>>

\* an iteration whose estimatePortfolioValueAtDate throws (its ledger read
\* fails): the catch logs a warning, no point is pushed, previousValue stays
DailyStepFailed ==
  /\ Yielded
  /\ daily.pc = "loop"
  /\ daily.i < daily.days
  /\ daily' = [daily EXCEPT !.i = daily.i + 1]
  /\ UNCHANGED <<holdings, transactions, rc, recomputes, est, now, metrics, report, others>>

\* the loop is over: return dailyValues
DailyEnd ==
  /\ Yielded
  /\ daily.pc = "loop"
  /\ daily.i >= daily.days
  /\ daily' = [daily EXCEPT !.pc = "done"]
  /\ UNCHANGED <<holdings, transactions, rc, recomputes, est, now, metrics, report, others>>

(***************************************************************************)
(* calculateMaxDrawdown                                                    *)
(***************************************************************************)
\* a variant that reports the decline as a signed change from the peak
RECURSIVE DrawdownLoopSigned(_, _)
DrawdownLoopSigned(dailyReturns, k) ==
  IF k = 0
  THEN [maxDrawdown |-> Zero, maxDrawdownPeriod |-> Null,
        peak |-> dailyReturns[1].value, peakDate |-> dailyReturns[1].date]
  ELSE LET acc == DrawdownLoopSigned(dailyReturns, k - 1)
           day == dailyReturns[k]
           rise == Gt(day.value, acc.peak)
           peak == IF rise THEN day.value ELSE acc.peak
           peakDate == IF rise THEN day.date ELSE acc.peakDate
           drawdown == IF Gt(peak, Zero)
                       THEN Mul(Div(Sub(day.value, peak), peak), N(100))
                       ELSE Zero
       IN  IF Gt(acc.maxDrawdown, drawdown)
           THEN [maxDrawdown |-> drawdown,
                 maxDrawdownPeriod |-> [start |-> peakDate, end |-> day.date],
                 peak |-> peak, peakDate |-> peakDate]
           ELSE [acc EXCEPT !.peak = peak, !.peakDate = peakDate]

calculateMaxDrawdownSigned(dailyReturns) ==
  IF Len(dailyReturns) = 0
  THEN [maxDrawdown |-> Null, maxDrawdownPeriod |-> Null]
  ELSE LET r == DrawdownLoopSigned(dailyReturns, Len(dailyReturns))
       IN  [maxDrawdown |-> IF r.maxDrawdown # Zero THEN r.maxDrawdown ELSE Null,
            maxDrawdownPeriod |-> r.maxDrawdownPeriod]

\* a variant that measures every decline from the first value of the series
RECURSIVE DrawdownLoopFromFirst(_, _)
DrawdownLoopFromFirst(dailyReturns, k) ==
  IF k = 0
  THEN [maxDrawdown |-> Zero, maxDrawdownPeriod |-> Null,
        peak |-> dailyReturns[1].value, peakDate |-> dailyReturns[1].date]
  ELSE LET acc == DrawdownLoopFromFirst(dailyReturns, k - 1)
           day == dailyReturns[k]
           drawdown == IF Gt(acc.peak, Zero)
                       THEN Mul(Div(Sub(acc.peak, day.value), acc.peak), N(100))
                       ELSE Zero
       IN  IF Gt(drawdown, acc.maxDrawdown)
           THEN [acc EXCEPT !.maxDrawdown = drawdown,
                            !.maxDrawdownPeriod = [start |-> acc.peakDate, end |-> day.date]]
           ELSE acc

calculateMaxDrawdownFromFirst(dailyReturns) ==
  IF Len(dailyReturns) = 0
  THEN [maxDrawdown |-> Null, maxDrawdownPeriod |-> Null]
  ELSE LET r == DrawdownLoopFromFirst(dailyReturns, Len(dailyReturns))
       IN  [maxDrawdown |-> IF Gt(r.maxDrawdown, Zero) THEN r.maxDrawdown ELSE Null,
            maxDrawdownPeriod |-> r.maxDrawdownPeriod]

\* the loop over the first k days: the running peak and the largest drawdown
RECURSIVE DrawdownLoop(_, _)
DrawdownLoop(dailyReturns, k) ==
  IF k = 0
  THEN [maxDrawdown |-> Zero, maxDrawdownPeriod |-> Null,
        peak |-> dailyReturns[1].value, peakDate |-> dailyReturns[1].date]
  ELSE LET acc == DrawdownLoop(dailyReturns, k - 1)
           day == dailyReturns[k]
           rise == Gt(day.value, acc.peak)
           peak == IF rise THEN day.value ELSE acc.peak
           peakDate == IF rise THEN day.date ELSE acc.peakDate
           drawdown == IF Gt(peak, Zero)
                       THEN Mul(Div(Sub(peak, day.value), peak), N(100))
                       ELSE Zero
       IN  IF Gt(drawdown, acc.maxDrawdown)
           THEN [maxDrawdown |-> drawdown,
                 maxDrawdownPeriod |-> [start |-> peakDate, end |-> day.date],
                 peak |-> peak, peakDate |-> peakDate]
           ELSE [acc EXCEPT !.peak = peak, !.peakDate = peakDate]

calculateMaxDrawdown(dailyReturns) ==
  IF Len(dailyReturns) = 0
  THEN [maxDrawdown |-> Null, maxDrawdownPeriod |-> Null]
  ELSE LET r == DrawdownLoop(dailyReturns, Len(dailyReturns))
       IN  [maxDrawdown |-> IF Gt(r.maxDrawdown, Zero) THEN r.maxDrawdown ELSE Null,
            maxDrawdownPeriod |-> r.maxDrawdownPeriod]

(***************************************************************************)
(* calculateAdvancedMetrics                                                *)
(***************************************************************************)
DaysPerYear == 365

\* dailyReturns.map(d => d.return)
Returns(dailyReturns) == [k \in 1..Len(dailyReturns) |-> dailyReturns[k].return]

\* returns.reduce((sum, r) => sum + r, 0)
RECURSIVE SumSeq(_)
SumSeq(xs) ==
  IF Len(xs) = 0 THEN Zero ELSE Add(SumSeq(SubSeq(xs, 1, Len(xs) - 1)), xs[Len(xs)])

\* Math.sqrt of a number >= 0: 0 for 0, else the number whose square is x
Sqrt(x) == IF x = Zero THEN Zero ELSE [sq |-> x]

\* a / b for a square root b
Ratio(a, b) == [num |-> a, den |-> b]

\* returns.indexOf(Math.max(...returns)), counted from 1
IndexOfMax(returns) ==
  CHOOSE k \in 1..Len(returns) :
    /\ \A j \in 1..Len(returns) : ~Gt(returns[j], returns[k])
    /\ \A j \in 1..(k - 1) : returns[j] # returns[k]

\* returns.indexOf(Math.min(...returns)), counted from 1
IndexOfMin(returns) ==
  CHOOSE k \in 1..Len(returns) :
    /\ \A j \in 1..Len(returns) : ~Gt(returns[k], returns[j])
    /\ \A j \in 1..(k - 1) : returns[j] # returns[k]

emptyAdvancedMetrics ==
  [sharpeRatio |-> Null, volatility |-> Null, maxDrawdown |-> Null,
   maxDrawdownPeriod |-> Null, averageReturn |-> Zero, winRate |-> Zero,
   bestDay |-> Null, worstDay |-> Null, totalTradingDays |-> 0]

\* the metrics of the series calculateDailyReturns returned
AdvancedMetrics(dailyReturns) ==
  IF Len(dailyReturns) = 0
  THEN emptyAdvancedMetrics
  ELSE LET returns == Returns(dailyReturns)
           length == N(Len(returns))
           averageReturn == Div(SumSeq(returns), length)
           variance ==
             Div(SumSeq([k \in 1..Len(returns) |->
                           Mul(Sub(returns[k], averageReturn), Sub(returns[k], averageReturn))]),
                 length)
           volatility == Sqrt(Mul(variance, N(DaysPerYear)))
           drawdown == calculateMaxDrawdown(dailyReturns)
           winningDays == Len(SelectSeq(returns, LAMBDA r : Gt(r, Zero)))
           bestDayIndex == IndexOfMax(returns)
           worstDayIndex == IndexOfMin(returns)
       IN  [sharpeRatio |-> IF volatility # Zero
                            THEN Ratio(Mul(averageReturn, N(DaysPerYear)), volatility)
                            ELSE Null,
            volatility |-> volatility,
            maxDrawdown |-> drawdown.maxDrawdown,
            maxDrawdownPeriod |-> drawdown.maxDrawdownPeriod,
            averageReturn |-> Mul(averageReturn, N(DaysPerYear)),
            winRate |-> Mul(Div(N(winningDays), length), N(100)),
            bestDay |-> [date |-> dailyReturns[bestDayIndex].date,
                         return |-> returns[bestDayIndex]],
            worstDay |-> [date |-> dailyReturns[worstDayIndex].date,
                          return |-> returns[worstDayIndex]],
            totalTradingDays |-> Len(returns)]

\* calculateAdvancedMetrics on the series its calculateDailyReturns returned
CalculateAdvancedMetrics ==
  /\ Yielded
  /\ daily.pc = "done"
  /\ metrics.advanced = <<>>
  /\ metrics' = [metrics EXCEPT !.advanced = <<AdvancedMetrics(daily.dailyValues)>>]
  /\ UNCHANGED <<holdings, transactions, rc, recomputes, est, daily, now, report, others>>

(***************************************************************************)
(* calculateRiskMetrics                                                    *)
(***************************************************************************)
\* returns.sort((a, b) => a - b)
RECURSIVE SortAscending(_)
SortAscending(xs) ==
  IF Len(xs) <= 1 THEN xs
  ELSE LET rest == SortAscending(SubSeq(xs, 1, Len(xs) - 1))
           last == xs[Len(xs)]
           before == SelectSeq(rest, LAMBDA x : ~Gt(x, last))
           after == SelectSeq(rest, LAMBDA x : Gt(x, last))
       IN  before \o <<last>> \o after

\* Math.floor(length * 0.05) and Math.floor(length * 0.01)
Var95Index(length) == (length * 5) \div 100
Var99Index(length) == length \div 100

emptyRiskMetrics ==
  [valueAtRisk95 |-> Null, valueAtRisk99 |-> Null, conditionalValueAtRisk |-> Null,
   downsideDeviation |-> Null, sortinoRatio |-> Null]

\* a variant whose worst returns are the slice from the VaR index on
RiskMetricsFromVar(dailyReturns) ==
  IF Len(dailyReturns) = 0
  THEN emptyRiskMetrics
  ELSE LET returns == SortAscending(Returns(dailyReturns))
           averageReturn == Div(SumSeq(returns), N(Len(returns)))
           var95Index == Var95Index(Len(returns))
           var99Index == Var99Index(Len(returns))
           worstReturns == SubSeq(returns, var95Index + 1, Len(returns))
           negativeReturns == SelectSeq(returns, LAMBDA r : Gt(Zero, r))
           downsideDeviation ==
             IF Len(negativeReturns) > 0
             THEN Sqrt(Div(SumSeq([k \in 1..Len(negativeReturns) |->
                                     Mul(negativeReturns[k], negativeReturns[k])]),
                           N(Len(negativeReturns))))
             ELSE Null
       IN  [valueAtRisk95 |-> OrElse(returns[var95Index + 1], Null),
            valueAtRisk99 |-> OrElse(returns[var99Index + 1], Null),
            conditionalValueAtRisk |->
              IF Len(worstReturns) > 0
              THEN Div(SumSeq(worstReturns), N(Len(worstReturns)))
              ELSE Null,
            downsideDeviation |-> downsideDeviation,
            sortinoRatio |->
              IF downsideDeviation # Null /\ downsideDeviation # Zero
              THEN Ratio(Mul(averageReturn, N(DaysPerYear)),
                         Sqrt(Mul(downsideDeviation.sq, N(DaysPerYear))))
              ELSE Null]

\* the risk metrics of the series calculateDailyReturns returned; array
\* indices count from 0 in the code and from 1 here
RiskMetrics(dailyReturns) ==
  IF Len(dailyReturns) = 0
  THEN emptyRiskMetrics
  ELSE LET returns == SortAscending(Returns(dailyReturns))
           averageReturn == Div(SumSeq(returns), N(Len(returns)))
           var95Index == Var95Index(Len(returns))
           var99Index == Var99Index(Len(returns))
           worstReturns == SubSeq(returns, 1, var95Index + 1)
           negativeReturns == SelectSeq(returns, LAMBDA r : Gt(Zero, r))
           downsideDeviation ==
             IF Len(negativeReturns) > 0
             THEN Sqrt(Div(SumSeq([k \in 1..Len(negativeReturns) |->
                                     Mul(negativeReturns[k], negativeReturns[k])]),
                           N(Len(negativeReturns))))
             ELSE Null
       IN  [valueAtRisk95 |-> OrElse(returns[var95Index + 1], Null),
            valueAtRisk99 |-> OrElse(returns[var99Index + 1], Null),
            conditionalValueAtRisk |->
              IF Len(worstReturns) > 0
              THEN Div(SumSeq(worstReturns), N(Len(worstReturns)))
              ELSE Null,
            downsideDeviation |-> downsideDeviation,
            sortinoRatio |->
              IF downsideDeviation # Null /\ downsideDeviation # Zero
              THEN Ratio(Mul(averageReturn, N(DaysPerYear)),
                         Sqrt(Mul(downsideDeviation.sq, N(DaysPerYear))))
              ELSE Null]

\* calculateRiskMetrics on the series its calculateDailyReturns returned
CalculateRiskMetrics ==
  /\ Yielded
  /\ daily.pc = "done"
  /\ metrics.risk = <<>>
  /\ metrics' = [metrics EXCEPT !.risk = <<RiskMetrics(daily.dailyValues)>>]
  /\ UNCHANGED <<holdings, transactions, rc, recomputes, est, daily, now, report, others>>

(***************************************************************************)
(* calculateBenchmarkComparisons                                           *)
(***************************************************************************)
Benchmarks == <<"BTC", "ETH">>

calculateCorrelationAndBeta == [correlation |-> Null, beta |-> Null]

\* a variant whose alpha takes a missing beta as 0
BenchmarkComparisonBetaZero(portfolioReturn, benchmark, startPrice, endPrice) ==
  LET benchmarkReturn == Mul(Div(Sub(endPrice, startPrice), startPrice), N(100))
      outperformance == Sub(portfolioReturn, benchmarkReturn)
      cb == calculateCorrelationAndBeta
      alpha == Sub(portfolioReturn, Mul(benchmarkReturn, OrElse(cb.beta, Zero)))
  IN  [portfolioReturn |-> portfolioReturn, benchmarkReturn |-> benchmarkReturn,
       alpha |-> alpha, beta |-> cb.beta, correlation |-> cb.correlation,
       outperformance |-> outperformance, benchmarkName |-> benchmark]

\* the comparison pushed for one benchmark whose prices were found
BenchmarkComparison(portfolioReturn, benchmark, startPrice, endPrice) ==
  LET benchmarkReturn == Mul(Div(Sub(endPrice, startPrice), startPrice), N(100))
      outperformance == Sub(portfolioReturn, benchmarkReturn)
      cb == calculateCorrelationAndBeta
      alpha == Sub(portfolioReturn, Mul(benchmarkReturn, OrElse(cb.beta, N(1))))
  IN  [portfolioReturn |-> portfolioReturn, benchmarkReturn |-> benchmarkReturn,
       alpha |-> alpha, beta |-> cb.beta, correlation |-> cb.correlation,
       outperformance |-> outperformance, benchmarkName |-> benchmark]

\* the loop over the first k benchmarks; answers[b] holds the answers of the
\* price API for b at the first and at the last date of the series
RECURSIVE BenchmarkLoop(_, _, _)
BenchmarkLoop(portfolioReturn, answers, k) ==
  IF k = 0 THEN <<>>
  ELSE LET comparisons == BenchmarkLoop(portfolioReturn, answers, k - 1)
           benchmark == Benchmarks[k]
           startPrice == getHistoricalPrice(answers[benchmark].start)
           endPrice == getHistoricalPrice(answers[benchmark].end)
       IN  IF Truthy(startPrice) /\ Truthy(endPrice) /\ Gt(startPrice, Zero)
           THEN Append(comparisons,
                       BenchmarkComparison(portfolioReturn, benchmark, startPrice, endPrice))
           ELSE comparisons

BenchmarkComparisons(portfolioReturns, answers) ==
  IF Len(portfolioReturns) = 0
  THEN <<>>
  ELSE LET first == portfolioReturns[1].value
           last == portfolioReturns[Len(portfolioReturns)].value
           portfolioReturn == Mul(Div(Sub(last, first), first), N(100))
       IN  BenchmarkLoop(portfolioReturn, answers, Len(Benchmarks))

\* calculateBenchmarkComparisons on the series its calculateDailyReturns returned
CalculateBenchmarkComparisons(answers) ==
  /\ Yielded
  /\ daily.pc = "done"
  /\ metrics.benchmarks = <<>>
  /\ metrics' = [metrics EXCEPT
       !.benchmarks = <<BenchmarkComparisons(daily.dailyValues, answers)>>]
  /\ UNCHANGED <<holdings, transactions, rc, recomputes, est, daily, now, report, others>>

(***************************************************************************)
(* The daily series of a ledger.                                           *)
(***************************************************************************)
DailyTypes == {"BUY", "SELL"}
DailyApis == [Symbols -> {ApiError, ApiOk(N(3))}]

NextDaily ==
  \/ \E s \in Symbols : CreateHolding(s, Zero)
  \/ /\ daily.pc = "idle"
     /\ \E h \in Symbols, t \in DailyTypes, x \in ValuationInputs, d \in Dates :
          AddTransaction(h, t, x[1], x[2], x[3], d)
  \/ RcRead
  \/ RcStep
  \/ RcWrite
  \/ \E days \in 1..MaxDays : DailyStart(days)
  \/ \E apis \in DailyApis : DailyStep(apis)
  \/ DailyStepFailed
  \/ DailyEnd
  \/ CalculateAdvancedMetrics
  \/ CalculateRiskMetrics

SpecDaily == Init /\ [][NextDaily]_vars

(***************************************************************************)
(* The metrics of a daily series.                                          *)
(***************************************************************************)
\* the portfolio values of the days of a series
SeriesValues == {Zero, N(1), N(2), N(4)}

\* the values of a portfolio that gains 10%, loses 10% and recovers in part
ScenarioC == <<N(100), N(110), N(99), N(105)>>

\* previousValue !== null && previousValue > 0 ? ... : 0
DailyReturn(previousValue, portfolioValue) ==
  IF previousValue # Null /\ Gt(previousValue, Zero)
  THEN Mul(Div(Sub(portfolioValue, previousValue), previousValue), N(100))
  ELSE Zero

\* what calculateDailyReturns returns when the days from startDate on are
\* worth the given values
DailyValues(values, startDate) ==
  [k \in 1..Len(values) |->
     [date |-> startDate + DayMs(k - 1), value |-> values[k],
      return |-> DailyReturn(IF k = 1 THEN Null ELSE values[k - 1], values[k])]]

SeriesInputs == UNION {[1..n -> SeriesValues] : n \in 0..MaxPoints} \cup {ScenarioC}

InitSeries ==
  /\ holdings = [s \in Symbols |-> NoHolding]
  /\ transactions = <<>>
  /\ rc = rcIdle
  /\ recomputes = [s \in Symbols |-> 0]
  /\ est = estIdle
  /\ now = MaxDate
  /\ metrics = noMetrics
  /\ report = reportIdle
  /\ limiter = limiterInit
  /\ put = putIdle
  /\ rcB = rcIdle
  /\ scheduler = schedulerInit
  /\ alerts = alertsInit
  /\ refresh = refreshIdle
  /\ \E values \in SeriesInputs :
       daily = [dailyIdle EXCEPT
                  !.pc = "done", !.days = Len(values), !.endDate = MaxDate,
                  !.startDate = MaxDate - DayMs(Len(values)), !.i = Len(values),
                  !.dailyValues = DailyValues(values, MaxDate - DayMs(Len(values))),
                  !.previousValue = IF Len(values) = 0 THEN Null ELSE values[Len(values)]]

\* the answers of the price API for a benchmark at the two ends of the series
BenchmarkAnswers ==
  [{"BTC", "ETH"} -> [start : {ApiError, ApiOk(N(2))}, end : {ApiOk(N(2)), ApiOk(N(3))}]]

NextSeries ==
  \/ CalculateAdvancedMetrics
  \/ CalculateRiskMetrics
  \/ \E answers \in BenchmarkAnswers : CalculateBenchmarkComparisons(answers)

SpecSeries == InitSeries /\ [][NextSeries]_vars

(***************************************************************************)
(* getPortfolioSummary                                                     *)
(***************************************************************************)
\* the holdings as updateHoldingPrices leaves them, fetched being the prices
\* the price API returns
UpdatedHoldings(fetched) ==
  LET prices == batchUpdatePrices(fetched)
  IN  [s \in Symbols |->
         IF holdings[s].present THEN HoldingPriceUpdate(holdings[s], prices[s])
         ELSE holdings[s]]

\* sum + (holding.field || 0) over the holdings of the symbols in S
RECURSIVE SumField(_, _, _)
SumField(hs, S, field) ==
  IF S = {} THEN Zero
  ELSE LET s == CHOOSE x \in S : TRUE
       IN  Add(SumField(hs, S \ {s}, field), OrElse(hs[s][field], Zero))

\* a variant that counts only the holdings that have a value
PortfolioSummaryValued(hs) ==
  LET present == {s \in Symbols : hs[s].present}
      totalCostBasis == SumField(hs, present, "totalCostBasis")
      totalUnrealizedPnL == SumField(hs, present, "unrealizedPnL")
  IN  [totalValue |-> SumField(hs, present, "currentValue"),
       totalCostBasis |-> totalCostBasis,
       totalUnrealizedPnL |-> totalUnrealizedPnL,
       totalRealizedPnL |-> SumField(hs, present, "realizedPnL"),
       totalPercentageChange |->
         IF Gt(totalCostBasis, Zero)
         THEN Mul(Div(totalUnrealizedPnL, totalCostBasis), N(100))
         ELSE Zero,
       holdingsCount |-> Cardinality({s \in present : hs[s].currentValue # Null})]

\* the summary over the rows hs
PortfolioSummary(hs) ==
  LET present == {s \in Symbols : hs[s].present}
      totalCostBasis == SumField(hs, present, "totalCostBasis")
      totalUnrealizedPnL == SumField(hs, present, "unrealizedPnL")
  IN  [totalValue |-> SumField(hs, present, "currentValue"),
       totalCostBasis |-> totalCostBasis,
       totalUnrealizedPnL |-> totalUnrealizedPnL,
       totalRealizedPnL |-> SumField(hs, present, "realizedPnL"),
       totalPercentageChange |->
         IF Gt(totalCostBasis, Zero)
         THEN Mul(Div(totalUnrealizedPnL, totalCostBasis), N(100))
         ELSE Zero,
       holdingsCount |-> Cardinality(present)]

\* GET /summary: updateHoldingPrices, then the sums over the rows read back;
\* with no holdings updateHoldingPrices returns at once with zero counts
GetPortfolioSummary(fetched) ==
  /\ Yielded
  /\ LET prices == IF \E s \in Symbols : holdings[s].present
                   THEN batchUpdatePrices(fetched)
                   ELSE refreshIdle.prices
     IN  /\ holdings' = UpdatedHoldings(fetched)
         /\ refresh' = [prices |-> prices, stats |-> PriceUpdateStats(holdings, prices),
                        summary |-> <<PortfolioSummary(holdings')>>]
  /\ UNCHANGED <<transactions, rc, recomputes, est, daily, now, metrics, report,
                 limiter, put, rcB, scheduler, alerts>>

(***************************************************************************)
(* calculateTimeBasedPerformance                                           *)
(***************************************************************************)
\* the periods; the year of the model begins at day 0, so YTD is now days
Periods ==
  <<[name |-> "1D", days |-> 1], [name |-> "7D", days |-> 7],
    [name |-> "30D", days |-> 30], [name |-> "90D", days |-> 90],
    [name |-> "1Y", days |-> DaysPerYear], [name |-> "YTD", days |-> now]>>

\* the results of the loop over the periods, endValue being the totalValue
\* of the summary
TimeBasedPerformance(apis, endValue) ==
  [k \in 1..Len(Periods) |->
     LET startDate == now - DayMs(Periods[k].days)
         startValue == estimatePortfolioValueAtDate(startDate, apis)
         absoluteReturn == Sub(endValue, startValue)
     IN  [period |-> Periods[k].name, startValue |-> startValue, endValue |-> endValue,
          absoluteReturn |-> absoluteReturn,
          percentageReturn |-> IF Gt(startValue, Zero)
                               THEN Mul(Div(absoluteReturn, startValue), N(100))
                               ELSE Zero,
          startDate |-> startDate, endDate |-> now]]

(***************************************************************************)
(* getEnhancedPortfolioMetrics                                             *)
(***************************************************************************)
\* the first k iterations of the day loop when every valuation succeeds
RECURSIVE DailyLoop(_, _, _)
DailyLoop(startDate, k, apis) ==
  IF k = 0 THEN <<>>
  ELSE LET dailyValues == DailyLoop(startDate, k - 1, apis)
           currentDate == startDate + DayMs(k - 1)
           portfolioValue == estimatePortfolioValueAtDate(currentDate, apis)
           previousValue == IF k = 1 THEN Null ELSE dailyValues[k - 1].value
       IN  Append(dailyValues,
                  [date |-> currentDate, value |-> portfolioValue,
                   return |-> DailyReturn(previousValue, portfolioValue)])

\* a whole call of calculateDailyReturns: the series when the ledger can be
\* read, no point at all when every read of it fails
calculateDailyReturns(days, apis, ledgerReadable) ==
  IF ledgerReadable THEN DailyLoop(now - DayMs(days), days, apis) ELSE <<>>

\* calculateDailyReturns(userId, 365), the year of the model being MaxDays days
SeriesDays == MaxDays

\* the promise of a section is fulfilled with a value, or rejected
Fulfilled(section, value) ==
  [report EXCEPT !.state[section] = "fulfilled", !.result[section] = <<value>>]

Rejected(section) == [report EXCEPT !.state[section] = "rejected"]

Pending(section) == report.pc = "all" /\ report.state[section] = "pending"

ReportStart ==
  /\ Yielded
  /\ rc.pc = "idle"
  /\ report.pc = "idle"
  /\ report' = [reportIdle EXCEPT !.pc = "all"]
  /\ UNCHANGED <<holdings, transactions, rc, recomputes, est, daily, now, metrics, others>>

\* getPortfolioSummary(userId): it throws when the holdings cannot be read
SummarySection(fetched, readable) ==
  /\ Yielded
  /\ Pending("summary")
  /\ IF readable
     THEN /\ holdings' = UpdatedHoldings(fetched)
          /\ report' = Fulfilled("summary", PortfolioSummary(UpdatedHoldings(fetched)))
     ELSE /\ report' = Rejected("summary")
          /\ UNCHANGED holdings
  /\ UNCHANGED <<transactions, rc, recomputes, est, daily, now, metrics, others>>

\* calculateTimeBasedPerformance(userId): it throws when a read of the
\* ledger or of the holdings fails, here the first one
TimeBasedSection(apis, fetched, readable) ==
  /\ Yielded
  /\ Pending("timeBasedPerformance")
  /\ IF readable
     THEN /\ holdings' = UpdatedHoldings(fetched)
          /\ report' = Fulfilled("timeBasedPerformance",
               TimeBasedPerformance(apis, PortfolioSummary(UpdatedHoldings(fetched)).totalValue))
     ELSE /\ report' = Rejected("timeBasedPerformance")
          /\ UNCHANGED holdings
  /\ UNCHANGED <<transactions, rc, recomputes, est, daily, now, metrics, others>>

\* calculateAdvancedMetrics(userId)
AdvancedSection(apis, ledgerReadable) ==
  /\ Yielded
  /\ Pending("advancedMetrics")
  /\ report' = Fulfilled("advancedMetrics",
       AdvancedMetrics(calculateDailyReturns(SeriesDays, apis, ledgerReadable)))
  /\ UNCHANGED <<holdings, transactions, rc, recomputes, est, daily, now, metrics, others>>

\* calculateRiskMetrics(userId)
RiskSection(apis, ledgerReadable) ==
  /\ Yielded
  /\ Pending("riskMetrics")
  /\ report' = Fulfilled("riskMetrics",
       RiskMetrics(calculateDailyReturns(SeriesDays, apis, ledgerReadable)))
  /\ UNCHANGED <<holdings, transactions, rc, recomputes, est, daily, now, metrics, others>>

\* calculateBenchmarkComparisons(userId)
BenchmarkSection(apis, ledgerReadable, answers) ==
  /\ Yielded
  /\ Pending("benchmarkComparisons")
  /\ report' = Fulfilled("benchmarkComparisons",
       BenchmarkComparisons(calculateDailyReturns(SeriesDays, apis, ledgerReadable), answers))
  /\ UNCHANGED <<holdings, transactions, rc, recomputes, est, daily, now, metrics, others>>

\* Promise.all is fulfilled: the report of the five results
ReportJoin ==
  /\ Yielded
  /\ report.pc = "all"
  /\ \A s \in SectionNames : report.state[s] = "fulfilled"
  /\ report' = [report EXCEPT
       !.pc = "returned",
       !.returned = <<[s \in SectionNames |-> report.result[s][1]]>>]
  /\ UNCHANGED <<holdings, transactions, rc, recomputes, est, daily, now, metrics, others>>

\* Promise.all is rejected, the catch runs: getPortfolioSummary again, then
\* the fallback data; the call throws when that summary throws
ReportCatch(fetched, readable) ==
  /\ Yielded
  /\ report.pc = "all"
  /\ \E s \in SectionNames : report.state[s] = "rejected"
  /\ IF readable
     THEN /\ holdings' = UpdatedHoldings(fetched)
          /\ report' = [report EXCEPT
               !.pc = "returned",
               !.returned =
                 <<[summary |-> PortfolioSummary(UpdatedHoldings(fetched)),
                    timeBasedPerformance |-> <<>>,
                    advancedMetrics |-> emptyAdvancedMetrics,
                    benchmarkComparisons |-> <<>>,
                    riskMetrics |-> emptyRiskMetrics]>>]
     ELSE /\ report' = [report EXCEPT !.pc = "threw"]
          /\ UNCHANGED holdings
  /\ UNCHANGED <<transactions, rc, recomputes, est, daily, now, metrics, others>>

(***************************************************************************)
(* The report of a user.                                                   *)
(***************************************************************************)
ReportInputs == {<<N(1), N(2), Null>>}
ReportApis == {[s \in Symbols |-> ApiOk(N(3))]}
ReportFetched == {[s \in Symbols |-> N(2)]}
ReportAnswers ==
  {[b \in {"BTC", "ETH"} |-> [start |-> ApiOk(N(2)), end |-> ApiOk(N(3))]]}

NextReport ==
  \/ /\ report.pc = "idle"
     /\ \E s \in LedgerSymbols : CreateHolding(s, Zero)
  \/ /\ report.pc = "idle"
     /\ \E h \in LedgerSymbols, t \in {"BUY", "SELL"}, x \in ReportInputs, d \in Dates :
          AddTransaction(h, t, x[1], x[2], x[3], d)
  \/ RcRead
  \/ RcStep
  \/ RcWrite
  \/ ReportStart
  \/ \E f \in ReportFetched, readable \in BOOLEAN : SummarySection(f, readable)
  \/ \E a \in ReportApis, f \in ReportFetched, readable \in BOOLEAN :
       TimeBasedSection(a, f, readable)
  \/ \E a \in ReportApis, readable \in BOOLEAN : AdvancedSection(a, readable)
  \/ \E a \in ReportApis, readable \in BOOLEAN : RiskSection(a, readable)
  \/ \E a \in ReportApis, readable \in BOOLEAN, answers \in ReportAnswers :
       BenchmarkSection(a, readable, answers)
  \/ ReportJoin
  \/ \E f \in ReportFetched, readable \in BOOLEAN : ReportCatch(f, readable)

SpecReport == Init /\ [][NextReport]_vars

(***************************************************************************)
(* The valuation of a ledger at a date.                                    *)
(***************************************************************************)
ValuationTypes == {"BUY", "SELL", "TRANSFER_OUT"}

NextValuation ==
  \/ \E s \in Symbols : CreateHolding(s, Zero)
  \/ /\ est.pc = "idle"
     /\ \E h \in Symbols, t \in ValuationTypes, x \in ValuationInputs, d \in Dates :
          AddTransaction(h, t, x[1], x[2], x[3], d)
  \/ RcRead
  \/ RcStep
  \/ RcWrite
  \/ \E d \in Dates : EstStart(d)
  \/ EstReplay
  \/ EstReplayEnd
  \/ \E a \in ApiOutcomes \cup {NotAsked} : EstPrice(a)

SpecValuation == Init /\ [][NextValuation]_vars

(***************************************************************************)
(* The ledger of one holding: transactions and recompute.                  *)
(***************************************************************************)
\* request bodies: <<amount, pricePerToken, totalValue>>
TxInputs ==
  {<<N(1), Null, Null>>, <<N(1), N(2), Null>>, <<N(2), Null, N(3)>>}
\* a transaction is dated today or backdated by a day
LedgerDates == {now - 1, now}

Next ==
  \/ \E s \in LedgerSymbols, a \in {Zero, N(1)} : CreateHolding(s, a)
  \/ \E h \in LedgerSymbols, t \in TransactionType, x \in TxInputs, d \in LedgerDates :
       AddTransaction(h, t, x[1], x[2], x[3], d)
  \/ \E h \in LedgerSymbols : CalculateHoldingMetrics(h)
  \/ RcRead
  \/ RcStep
  \/ RcWrite

Spec == Init /\ [][Next]_vars

(***************************************************************************)
(* The holdings of a user under transactions and price refreshes.          *)
(***************************************************************************)
RefreshTypes == {"BUY", "SELL", "TRANSFER_OUT"}

NextHolding ==
  \/ \E s \in Symbols : CreateHolding(s, Zero)
  \/ \E h \in Symbols, t \in RefreshTypes, x \in TxInputs :
       AddTransaction(h, t, x[1], x[2], x[3], now)
  \/ RcRead
  \/ RcStep
  \/ RcWrite
  \/ \E f \in [Symbols -> PriceData] : UpdateHoldingPrices(f)

SpecHolding == Init /\ [][NextHolding]_vars

(***************************************************************************)
(* rateLimitedApiCall of lib/cryptoApi.ts: the limiter every request to    *)
(* the price API awaits first.  Its callers run concurrently (the          *)
(* calculators of getEnhancedPortfolioMetrics, the scheduler, the routes). *)
(***************************************************************************)
\* lastApiCall = Date.now(), after which the caller sends its request
Release(c) ==
  [limiter EXCEPT !.lastApiCall = limiter.clock,
                  !.callers[c] = [pc |-> "calling", wakeAt |-> 0],
                  !.released = IF Len(@) < 2 THEN Append(@, limiter.clock)
                               ELSE <<@[2], limiter.clock>>]

\* the synchronous part of a call: read the clock and lastApiCall, then either
\* start the timer or go on at once
LimiterCall(c) ==
  /\ limiter.callers[c].pc = "idle"
  /\ LET timeSinceLastCall == limiter.clock - limiter.lastApiCall
     IN  IF timeSinceLastCall < API_RATE_LIMIT
         THEN LET waitTime == API_RATE_LIMIT - timeSinceLastCall
              IN  limiter' = [limiter EXCEPT !.callers[c] =
                                [pc |-> "waiting", wakeAt |-> limiter.clock + waitTime]]
         ELSE limiter' = Release(c)
  /\ UNCHANGED <<holdings, transactions, rc, recomputes, est, daily, now, metrics, report,
                 put, rcB, scheduler, alerts, refresh>>

\* the timer fires, at its time or later
LimiterWake(c) ==
  /\ limiter.callers[c].pc = "waiting"
  /\ limiter.clock >= limiter.callers[c].wakeAt
  /\ limiter' = Release(c)
  /\ UNCHANGED <<holdings, transactions, rc, recomputes, est, daily, now, metrics, report,
                 put, rcB, scheduler, alerts, refresh>>

\* the request of the caller is answered
LimiterDone(c) ==
  /\ limiter.callers[c].pc = "calling"
  /\ limiter' = [limiter EXCEPT !.callers[c] = [pc |-> "idle", wakeAt |-> 0]]
  /\ UNCHANGED <<holdings, transactions, rc, recomputes, est, daily, now, metrics, report,
                 put, rcB, scheduler, alerts, refresh>>

LimiterTick ==
  /\ limiter.clock + ClockStep <= StartTime + MaxTicks * ClockStep
  /\ limiter' = [limiter EXCEPT !.clock = limiter.clock + ClockStep]
  /\ UNCHANGED <<holdings, transactions, rc, recomputes, est, daily, now, metrics, report,
                 put, rcB, scheduler, alerts, refresh>>

NextLimiter ==
  \/ \E c \in Callers : LimiterCall(c)
  \/ \E c \in Callers : LimiterWake(c)
  \/ \E c \in Callers : LimiterDone(c)
  \/ LimiterTick

SpecLimiter == Init /\ [][NextLimiter]_vars

(***************************************************************************)
(* PUT /holdings/:id of routes/portfolio.ts: the manual adjustment.        *)
(***************************************************************************)
\* findFirst, then update of currentAmount, then the call of
\* calculateHoldingMetrics(id); holding is the row update returned
PutHolding(id, currentAmount) ==
  /\ Yielded
  /\ put.pc # "recalc"
  /\ rc.pc = "idle"
  /\ holdings[id].present
  /\ holdings' = [holdings EXCEPT ![id].currentAmount = currentAmount]
  /\ put' = [pc |-> "recalc", id |-> id, currentAmount |-> currentAmount,
             holding |-> holdings'[id]]
  /\ rc' = [rcIdle EXCEPT !.pc = "read", !.holdingId = id]
  /\ UNCHANGED <<transactions, recomputes, est, daily, now, metrics, report,
                 limiter, rcB, scheduler, alerts, refresh>>

\* reply.code(200).send({ message, holding }) once the recalculation returned
PutReply ==
  /\ Yielded
  /\ put.pc = "recalc"
  /\ rc.pc = "idle"
  /\ put' = [put EXCEPT !.pc = "replied"]
  /\ UNCHANGED <<holdings, transactions, rc, recomputes, est, daily, now, metrics, report,
                 limiter, rcB, scheduler, alerts, refresh>>

\* updateHoldingSchema: currentAmount is a number >= 0
AdjustAmounts == {Zero, N(1), N(2)}

AdjustTypes == {"BUY", "SELL"}

NextAdjust ==
  \/ \E s \in LedgerSymbols, a \in AdjustAmounts : CreateHolding(s, a)
  \/ put.pc # "recalc" /\
       \E h \in LedgerSymbols, t \in AdjustTypes, a \in {N(1), N(2)}, p \in {Null, N(2)} :
         AddTransaction(h, t, a, p, Null, now)
  \/ RcRead
  \/ RcStep
  \/ RcWrite
  \/ \E h \in LedgerSymbols, a \in AdjustAmounts : PutHolding(h, a)
  \/ PutReply

SpecAdjust == Init /\ [][NextAdjust]_vars

(***************************************************************************)
(* The paths that create or change a transaction: POST /transactions       *)
(* (AddTransaction above), bulkImportTransactions and updateTransaction,   *)
(* the last two behind validateTransactionData.                            *)
(***************************************************************************)
\* a field the request leaves out (JavaScript undefined)
Undefined == [n |-> 0, d |-> -2]

IsNumber(x) == x.d >= 0

\* validation.isValid for the fields of the model: the required fields, the
\* type, the amount, the price and the date, which must not be after new Date()
validateTransactionData(data) ==
  /\ data.holdingId # ""
  /\ data.type \in TransactionType
  /\ data.amount # Undefined /\ data.amount # Null
  /\ IsNumber(data.amount) /\ ~Gt(Zero, data.amount)
  /\ data.pricePerToken # Undefined =>
       IsNumber(data.pricePerToken) /\ ~Gt(Zero, data.pricePerToken)
  /\ ~(data.date > now)

\* bulkImportTransactions with one row: a row that fails the validation or
\* names no holding of the user is counted as failed and skipped; the holding
\* of a created row is recalculated at the end
BulkImportRow(rowData) ==
  /\ Yielded
  /\ rc.pc = "idle"
  /\ Len(transactions) < MaxTx
  /\ validateTransactionData(rowData)
  /\ holdings[rowData.holdingId].present
  /\ transactions' = Append(transactions,
       [holdingId |-> rowData.holdingId, type |-> rowData.type, amount |-> rowData.amount,
        pricePerToken |-> OrElse(rowData.pricePerToken, Null),
        totalValue |-> OrElse(calculatedTotalValue(rowData.amount, rowData.pricePerToken, Null),
                              Null),
        date |-> rowData.date])
  /\ rc' = [rcIdle EXCEPT !.pc = "read", !.holdingId = rowData.holdingId]
  /\ recomputes' = [recomputes EXCEPT ![rowData.holdingId] = 0]
  /\ UNCHANGED <<holdings, est, daily, now, metrics, report, others>>

\* updateTransaction with updateData = { date }: the stored row merged with
\* the update is validated, then the row is updated and its holding recalculated
UpdateTransaction(k, date) ==
  /\ Yielded
  /\ rc.pc = "idle"
  /\ k \in 1..Len(transactions)
  /\ validateTransactionData([transactions[k] EXCEPT !.date = date])
  /\ transactions' = [transactions EXCEPT ![k].date = date]
  /\ rc' = [rcIdle EXCEPT !.pc = "read", !.holdingId = transactions[k].holdingId]
  /\ recomputes' = [recomputes EXCEPT ![transactions[k].holdingId] = 0]
  /\ UNCHANGED <<holdings, est, daily, now, metrics, report, others>>

\* createTransactionSchema: date is any date-time string
RequestDates == {now - 1, now, now + 1}

ImportRows ==
  [holdingId : LedgerSymbols, type : {"BUY", "SELL"}, amount : {N(1)},
   pricePerToken : {Undefined, N(2)}, date : RequestDates]

NextLedger ==
  \/ \E s \in LedgerSymbols : CreateHolding(s, Zero)
  \/ \E h \in LedgerSymbols, t \in {"BUY", "SELL"}, p \in {Null, N(2)}, d \in RequestDates :
       AddTransaction(h, t, N(1), p, Null, d)
  \/ \E rowData \in ImportRows : BulkImportRow(rowData)
  \/ \E k \in 1..MaxTx, d \in RequestDates : UpdateTransaction(k, d)
  \/ RcRead
  \/ RcStep
  \/ RcWrite

SpecLedger == Init /\ [][NextLedger]_vars

(***************************************************************************)
(* The summary of a user with up to two holdings, one of them with a       *)
(* ledger.                                                                 *)
(***************************************************************************)
NextSummary ==
  \/ \E s \in Symbols, a \in {Zero, N(1)} : CreateHolding(s, a)
  \/ \E h \in LedgerSymbols, t \in {"BUY", "SELL"}, p \in {Null, N(2)} :
       AddTransaction(h, t, N(1), p, Null, now)
  \/ RcRead
  \/ RcStep
  \/ RcWrite
  \/ \E f \in [Symbols -> PriceData] : GetPortfolioSummary(f)

SpecSummary == Init /\ [][NextSummary]_vars

(***************************************************************************)
(* AlertScheduler of schedulerService.ts and the evaluation it runs,       *)
(* evaluateAllAlerts with shouldSendAlertNotification.                     *)
(***************************************************************************)
\* 1000 * 60 * 60 of shouldSendAlertNotification
MsPerHour == 1000 * 60 * 60

PriceCooldownHours == 1
OtherCooldownHours == 6

\* a variant of runEvaluation without the overlap check
runEvaluationUnguarded(sch) ==
  [sch EXCEPT !.evaluationInProgress = TRUE, !.running = @ + 1, !.lastRun = "started"]

\* runEvaluation up to its first await: skip when an evaluation is in
\* progress, else set the flag and call evaluateAllAlerts
runEvaluation(sch) ==
  IF sch.evaluationInProgress
  THEN [sch EXCEPT !.lastRun = "skipped"]
  ELSE [sch EXCEPT !.evaluationInProgress = TRUE, !.running = @ + 1, !.lastRun = "started"]

\* the evaluateAllAlerts call a runEvaluation started, if it started one
Evaluating(sch) ==
  IF sch.running > scheduler.running
  THEN [alerts EXCEPT !.eval = [evalIdle EXCEPT !.pc = "find"]]
  ELSE alerts

\* start(): run at once, then every minute
SchedulerStart ==
  /\ ~scheduler.isRunning
  /\ LET sch == runEvaluation(scheduler)
     IN  /\ scheduler' = [sch EXCEPT !.intervalId = TRUE, !.isRunning = TRUE]
         /\ alerts' = Evaluating(sch)
  /\ UNCHANGED <<holdings, transactions, rc, recomputes, est, daily, now, metrics, report,
                 limiter, put, rcB, refresh>>

SchedulerStop ==
  /\ scheduler.isRunning
  /\ scheduler' = [scheduler EXCEPT !.intervalId = FALSE, !.isRunning = FALSE]
  /\ UNCHANGED <<holdings, transactions, rc, recomputes, est, daily, now, metrics, report,
                 limiter, put, rcB, alerts, refresh>>

\* the callback of setInterval
IntervalTick ==
  /\ scheduler.intervalId
  /\ LET sch == runEvaluation(scheduler)
     IN  /\ scheduler' = sch
         /\ alerts' = Evaluating(sch)
  /\ UNCHANGED <<holdings, transactions, rc, recomputes, est, daily, now, metrics, report,
                 limiter, put, rcB, refresh>>

\* triggerEvaluation(), POST /alerts/scheduler/trigger
TriggerEvaluation ==
  /\ LET sch == runEvaluation(scheduler)
     IN  /\ scheduler' = sch
         /\ alerts' = Evaluating(sch)
  /\ UNCHANGED <<holdings, transactions, rc, recomputes, est, daily, now, metrics, report,
                 limiter, put, rcB, refresh>>

\* prisma.alert.findMany answers; when it fails evaluateAllAlerts returns []
EvalFind(readable) ==
  /\ alerts.eval.pc = "find"
  /\ alerts' = [alerts EXCEPT !.eval =
       IF readable THEN [pc |-> "check", i |-> 1, found |-> alerts.lastTriggered]
       ELSE [evalIdle EXCEPT !.pc = "done"]]
  /\ UNCHANGED <<holdings, transactions, rc, recomputes, est, daily, now, metrics, report,
                 limiter, put, rcB, scheduler, refresh>>

cooldownHours(alert) == IF alert = "price" THEN PriceCooldownHours ELSE OtherCooldownHours

\* a variant with no cooldown
shouldSendAlertNotificationAlways(alert, lastTriggered) == TRUE

\* shouldSendAlertNotification(alert), lastTriggered being alert.lastTriggered
shouldSendAlertNotification(alert, lastTriggered) ==
  IF lastTriggered # Null
  THEN LET hoursSinceLastTrigger == Num(alerts.clock - lastTriggered.n, MsPerHour)
       IN  ~Gt(N(cooldownHours(alert)), hoursSinceLastTrigger)
  ELSE TRUE

NextAlert(eval) ==
  IF eval.i < Len(AlertIds) THEN [eval EXCEPT !.pc = "check", !.i = @ + 1]
  ELSE [eval EXCEPT !.pc = "done"]

\* the evaluation of alert i up to sendNotificationToUser: the condition is
\* met or not; a triggered alert past its cooldown is sent
EvalCheck(triggered) ==
  /\ alerts.eval.pc = "check"
  /\ LET alert == AlertIds[alerts.eval.i]
     IN  alerts' = [alerts EXCEPT !.eval =
           IF triggered /\ shouldSendAlertNotification(alert, alerts.eval.found[alert])
           THEN [@ EXCEPT !.pc = "sending"]
           ELSE NextAlert(@)]
  /\ UNCHANGED <<holdings, transactions, rc, recomputes, est, daily, now, metrics, report,
                 limiter, put, rcB, scheduler, refresh>>

\* sendNotificationToUser answers; on success the row gets
\* lastTriggered: new Date()
EvalSent(success) ==
  /\ alerts.eval.pc = "sending"
  /\ LET alert == AlertIds[alerts.eval.i]
     IN  alerts' = [alerts EXCEPT
           !.eval = NextAlert(@),
           !.notified[alert] = IF success THEN N(alerts.clock) ELSE @,
           !.lastTriggered[alert] = IF success THEN N(alerts.clock) ELSE @]
  /\ UNCHANGED <<holdings, transactions, rc, recomputes, est, daily, now, metrics, report,
                 limiter, put, rcB, scheduler, refresh>>

\* evaluateAllAlerts returned, or it was rejected and the catch ran; the
\* finally clears the flag in both cases
EvaluationEnd(threw) ==
  /\ alerts.eval.pc = "done"
  /\ alerts' = [alerts EXCEPT !.eval = evalIdle]
  /\ scheduler' = [scheduler EXCEPT !.evaluationInProgress = FALSE, !.running = @ - 1,
                                    !.lastRun = IF threw THEN "threw" ELSE "completed"]
  /\ UNCHANGED <<holdings, transactions, rc, recomputes, est, daily, now, metrics, report,
                 limiter, put, rcB, refresh>>

\* PUT /alerts/:id/trigger: lastTriggered: new Date()
MarkTriggered(alert) ==
  /\ alerts.lastTriggered[alert] # N(alerts.clock)
  /\ alerts' = [alerts EXCEPT !.lastTriggered[alert] = N(alerts.clock)]
  /\ UNCHANGED <<holdings, transactions, rc, recomputes, est, daily, now, metrics, report,
                 limiter, put, rcB, scheduler, refresh>>

\* an hour passes
AlertTick ==
  /\ alerts.clock < MaxAlertHours * MsPerHour
  /\ alerts' = [alerts EXCEPT !.clock = @ + MsPerHour]
  /\ UNCHANGED <<holdings, transactions, rc, recomputes, est, daily, now, metrics, report,
                 limiter, put, rcB, scheduler, refresh>>

\* the scheduler with its timer, its manual trigger and the evaluations
NextScheduler ==
  \/ SchedulerStart
  \/ SchedulerStop
  \/ IntervalTick
  \/ TriggerEvaluation
  \/ \E readable \in BOOLEAN : EvalFind(readable)
  \/ \E triggered \in BOOLEAN : EvalCheck(triggered)
  \/ \E success \in BOOLEAN : EvalSent(success)
  \/ \E threw \in BOOLEAN : EvaluationEnd(threw)
  \/ \E a \in AlertNames : MarkTriggered(a)
  \/ alerts.clock < MsPerHour /\ AlertTick

SpecScheduler == Init /\ [][NextScheduler]_vars

\* the evaluations of a started scheduler over the hours
NextAlerts ==
  \/ SchedulerStart
  \/ IntervalTick
  \/ \E readable \in BOOLEAN : EvalFind(readable)
  \/ \E triggered \in BOOLEAN : EvalCheck(triggered)
  \/ \E success \in BOOLEAN : EvalSent(success)
  \/ \E threw \in BOOLEAN : EvaluationEnd(threw)
  \/ \E a \in AlertNames : MarkTriggered(a)
  \/ AlertTick

SpecAlerts == Init /\ [][NextAlerts]_vars

(***************************************************************************)
(* Series long enough for the index of the 95% VaR to leave 0: a few       *)
(* opening values, then the last of them held to the end of the window.    *)
(***************************************************************************)
\* the least length with Math.floor(length * 0.05) >= 1
LongPoints == 100 \div 5

Held(head) ==
  [k \in 1..LongPoints |-> IF k <= Len(head) THEN head[k] ELSE head[Len(head)]]

LongSeriesInputs == {Held(head) : head \in [1..MaxPoints -> SeriesValues]}

InitLongSeries ==
  /\ holdings = [s \in Symbols |-> NoHolding]
  /\ transactions = <<>>
  /\ rc = rcIdle
  /\ recomputes = [s \in Symbols |-> 0]
  /\ est = estIdle
  /\ now = MaxDate
  /\ metrics = noMetrics
  /\ report = reportIdle
  /\ limiter = limiterInit
  /\ put = putIdle
  /\ rcB = rcIdle
  /\ scheduler = schedulerInit
  /\ alerts = alertsInit
  /\ refresh = refreshIdle
  /\ \E values \in LongSeriesInputs :
       daily = [dailyIdle EXCEPT
                  !.pc = "done", !.days = Len(values), !.endDate = MaxDate,
                  !.startDate = MaxDate - DayMs(Len(values)), !.i = Len(values),
                  !.dailyValues = DailyValues(values, MaxDate - DayMs(Len(values))),
                  !.previousValue = values[Len(values)]]

NextLongSeries == CalculateRiskMetrics

SpecLongSeries == InitLongSeries /\ [][NextLongSeries]_vars

(***************************************************************************)
(* Properties of the cost-basis tracker.                                   *)
(***************************************************************************)
\* the fields calculateHoldingMetrics writes
Derived(holding) ==
  <<holding.currentAmount, holding.averageCostBasis, holding.totalCostBasis,
    holding.realizedPnL>>

\* the totals the conservation law speaks of, over the first k transactions:
\* the average cost before a sale is costBasis / amount
RECURSIVE Conservation(_, _)
Conservation(txs, k) ==
  IF k = 0
  THEN [amount |-> Zero, costBasis |-> Zero, bought |-> Zero, sold |-> Zero,
        sellValue |-> Zero, costOfSold |-> Zero]
  ELSE LET c == Conservation(txs, k - 1)
           tx == txs[k]
       IN  IF tx.type = "BUY"
           THEN [c EXCEPT !.amount = Add(c.amount, tx.amount),
                          !.costBasis = Add(c.costBasis, TxValue(tx)),
                          !.bought = Add(c.bought, tx.amount)]
           ELSE LET cost == Mul(Div(c.costBasis, c.amount), tx.amount)
                IN  [c EXCEPT !.amount = Sub(c.amount, tx.amount),
                              !.costBasis = Sub(c.costBasis, cost),
                              !.sold = Add(c.sold, tx.amount),
                              !.sellValue = Add(c.sellValue, TxValue(tx)),
                              !.costOfSold = Add(c.costOfSold, cost)]

\* some BUYs followed by some SELLs, in date order, no SELL of an empty position
BuysThenSells(txs) ==
  /\ \E i \in 1..Len(txs) : txs[i].type = "SELL"
  /\ \A i \in 1..Len(txs) : txs[i].type \in {"BUY", "SELL"}
  /\ \A i, j \in 1..Len(txs) :
       i < j => /\ ~(txs[i].type = "SELL" /\ txs[j].type = "BUY")
                /\ txs[i].date <= txs[j].date
  /\ \A k \in 1..Len(txs) :
       txs[k].type = "SELL" => Gt(Conservation(txs, k - 1).amount, Zero)

\* C1: for a holding whose transactions are BUYs followed by SELLs, the
\* recompute yields realizedPnL = sum of sell values - sum of costOfSold and
\* currentAmount = sum of buy amounts - sum of sell amounts, also when a BUY
\* has no price or total value.
C1_CostBasisConservation ==
  \A h \in Symbols :
    LET txs == HoldingTransactions(h)
        c == Conservation(txs, Len(txs))
    IN  (recomputes[h] >= 1 /\ BuysThenSells(txs)) =>
          /\ holdings[h].realizedPnL = Sub(c.sellValue, c.costOfSold)
          /\ holdings[h].currentAmount = Sub(c.bought, c.sold)

\* the loop of calculateHoldingMetrics over a given list
RECURSIVE MetricsFold(_, _)
MetricsFold(txs, k) ==
  IF k = 0 THEN rcIdle ELSE MetricsStep(MetricsFold(txs, k - 1), txs[k])

\* C2: the recompute processes the transactions in ascending date order: its
\* result is the fold over the transactions sorted by date, whatever order
\* they were inserted in.
C2_DateOrder ==
  \A h \in Symbols :
    LET txs == SortByDate(HoldingTransactions(h))
        acc == MetricsFold(txs, Len(txs))
    IN  recomputes[h] >= 1 =>
          /\ holdings[h].currentAmount = acc.totalAmount
          /\ holdings[h].totalCostBasis = acc.totalCostBasis
          /\ holdings[h].realizedPnL = acc.realizedPnL

\* C3: a recompute of a holding whose transactions have not changed since
\* its last recompute writes the same currentAmount, averageCostBasis,
\* totalCostBasis and realizedPnL again.
C3_Idempotence ==
  [][(rc.pc = "loop" /\ rc'.pc = "idle" /\ recomputes[rc.holdingId] >= 1)
       => Derived(holdings'[rc.holdingId]) = Derived(holdings[rc.holdingId])]_vars

C3_Witness ==
  \E h \in Symbols :
    /\ recomputes[h] = 2
    /\ rc.pc = "idle"
    /\ Len(HoldingTransactions(h)) >= 2
    /\ holdings[h].realizedPnL # Zero
    /\ holdings[h].averageCostBasis # Null

\* the loop is at a transaction of one of the given types
AtTransaction(types) ==
  /\ rc.pc = "loop"
  /\ rc.i <= Len(rc.txs)
  /\ rc.txs[rc.i].type \in types

\* C4: a SELL realizes profit only when the amount before it is > 0: then
\* realizedPnL grows by value - avgCost * amount and the cost basis shrinks by
\* avgCost * amount, with avgCost = costBasis / amount before; otherwise the
\* SELL leaves realizedPnL and the cost basis unchanged.
C4_SellRealization ==
  [][AtTransaction({"SELL"}) =>
       LET tx == rc.txs[rc.i]
           costOfSold == Mul(Div(rc.totalCostBasis, rc.totalAmount), tx.amount)
       IN  IF Gt(rc.totalAmount, Zero)
           THEN /\ rc'.realizedPnL = Add(rc.realizedPnL, Sub(TxValue(tx), costOfSold))
                /\ rc'.totalCostBasis = Sub(rc.totalCostBasis, costOfSold)
           ELSE /\ rc'.realizedPnL = rc.realizedPnL
                /\ rc'.totalCostBasis = rc.totalCostBasis]_vars

\* C5: a TRANSFER_OUT changes only the running amount; a STAKE or UNSTAKE
\* changes none of amount, cost basis and realized P&L.
C5_TransferOutStakeFrame ==
  [][/\ AtTransaction({"TRANSFER_OUT"}) =>
          /\ rc'.totalAmount = Sub(rc.totalAmount, rc.txs[rc.i].amount)
          /\ rc'.totalCostBasis = rc.totalCostBasis
          /\ rc'.realizedPnL = rc.realizedPnL
     /\ AtTransaction({"STAKE", "UNSTAKE"}) =>
          /\ rc'.totalAmount = rc.totalAmount
          /\ rc'.totalCostBasis = rc.totalCostBasis
          /\ rc'.realizedPnL = rc.realizedPnL]_vars

C5_Witness ==
  /\ rc.pc = "loop"
  /\ rc.i = 3
  /\ rc.txs[1].type = "BUY"
  /\ rc.txs[2].type = "TRANSFER_OUT"
  /\ rc.totalAmount = N(1)
  /\ rc.totalCostBasis = N(3)

(***************************************************************************)
(* Properties of the stored holding.                                       *)
(***************************************************************************)
\* C6: whenever no recompute is running, a holding whose currentValue and
\* currentPrice are both non-null has currentValue = currentAmount *
\* currentPrice, and a holding whose unrealizedPnL is non-null has
\* unrealizedPnL = currentValue - totalCostBasis.
C6_HoldingInvariant ==
  rc.pc = "idle" =>
    \A h \in Symbols :
      LET holding == holdings[h]
      IN  holding.present =>
            /\ (holding.currentValue # Null /\ holding.currentPrice # Null) =>
                 holding.currentValue = Mul(holding.currentAmount, holding.currentPrice)
            /\ holding.unrealizedPnL # Null =>
                 /\ holding.currentValue # Null
                 /\ holding.totalCostBasis # Null
                 /\ holding.unrealizedPnL = Sub(holding.currentValue, holding.totalCostBasis)

(***************************************************************************)
(* Properties of the historical valuation.                                 *)
(***************************************************************************)
\* the pricing loop is at a symbol of positive replayed amount
AtPricedSymbol ==
  /\ est.pc = "price"
  /\ est.i <= Len(est.syms)
  /\ Gt(est.holdingsAtDate[est.syms[est.i]].amount, Zero)

\* C7: for a symbol of positive replayed amount, a lookup that returns no
\* price adds exactly the symbol's replayed cost basis to the total, and a
\* lookup that returns a price adds amount * price.
C7_PriceMissFallback ==
  [][(AtPricedSymbol /\ est'.i = est.i + 1) =>
       LET symbol == est.syms[est.i]
           holding == est.holdingsAtDate[symbol]
           historicalPrice == getHistoricalPrice(est'.api[symbol])
       IN  IF historicalPrice = Null
           THEN est'.totalValue = Add(est.totalValue, holding.costBasis)
           ELSE est'.totalValue = Add(est.totalValue, Mul(holding.amount, historicalPrice))]_vars

C7_Witness ==
  /\ est.pc = "done"
  /\ \E s \in Symbols :
       /\ est.api[s] = ApiOk(Null)
       /\ est.holdingsAtDate[s].costBasis = N(3)
       /\ est.holdingsAtDate[s].amount = N(2)
       /\ est.totalValue = N(3)

\* the symbols of a sequence with a positive replayed amount, and the sum a
\* completed valuation owes for them: cost basis for a symbol whose lookup
\* failed or found no price, amount * price otherwise
RECURSIVE Owed(_)
Owed(syms) ==
  IF Len(syms) = 0 THEN Zero
  ELSE LET symbol == syms[Len(syms)]
           holding == est.holdingsAtDate[symbol]
           answer == est.api[symbol]
           part == IF ~Gt(holding.amount, Zero) THEN Zero
                   ELSE IF answer.kind = "ok" /\ answer.usd # Null /\ Gt(answer.usd, Zero)
                   THEN Mul(holding.amount, answer.usd)
                   ELSE holding.costBasis
       IN  Add(Owed(SubSeq(syms, 1, Len(syms) - 1)), part)

\* C8: an error of the price lookup for one symbol does not abort the
\* valuation: the symbol contributes its cost basis, and every other symbol
\* of positive amount is still asked for and included in the returned sum.
C8_OracleErrorIsolated ==
  est.pc = "done" =>
    /\ \A k \in 1..Len(est.syms) :
         Gt(est.holdingsAtDate[est.syms[k]].amount, Zero) => est.api[est.syms[k]] # NotAsked
    /\ est.totalValue = Owed(est.syms)

C8_Witness ==
  /\ est.pc = "done"
  /\ Len(est.syms) = 2
  /\ est.api[est.syms[1]] = ApiError
  /\ est.api[est.syms[2]] = ApiOk(N(3))
  /\ Gt(est.holdingsAtDate[est.syms[1]].costBasis, Zero)
  /\ est.totalValue = Add(est.holdingsAtDate[est.syms[1]].costBasis,
                          Mul(est.holdingsAtDate[est.syms[2]].amount, N(3)))

\* C9: in the replay every outflow multiplies the symbol's cost basis by
\* 1 - soldAmount / amountBeforeSale, so an outflow of the whole tracked
\* amount leaves the cost basis at 0.
C9_ProportionalReduction ==
  [][(/\ est.pc = "replay"
      /\ est.i <= Len(est.txs)
      /\ est.txs[est.i].type \in Outflow
      /\ Gt(est.holdingsAtDate[est.txs[est.i].holdingId].amount, Zero))
       => LET transaction == est.txs[est.i]
              symbol == transaction.holdingId
              before == est.holdingsAtDate[symbol]
          IN  est'.holdingsAtDate[symbol].costBasis =
                Mul(before.costBasis, Sub(N(1), Div(transaction.amount, before.amount)))]_vars

(***************************************************************************)
(* Properties of the daily series.                                         *)
(***************************************************************************)
\* C10: the series has exactly one point per day of the closed window
\* [now - N days, now]: the first point is dated now - N days, the last one
\* now, consecutive points are one day apart and no day is missing.
C10_DailyWindow ==
  daily.pc = "done" =>
    LET points == daily.dailyValues
    IN  /\ Len(points) = daily.days + 1
        /\ points[1].date = daily.endDate - DayMs(daily.days)
        /\ points[Len(points)].date = daily.endDate
        /\ \A k \in 1..(Len(points) - 1) : points[k + 1].date = points[k].date + DayMs(1)

\* C11: the first point of the series has return 0, and every later point
\* follows the point of the immediately preceding calendar day and has the
\* return (value - previous) / previous * 100 over that day's value when it
\* is > 0, and 0 otherwise.
C11_DailyReturn ==
  LET points == daily.dailyValues
  IN  \A k \in 1..Len(points) :
        IF k = 1
        THEN points[k].return = Zero
        ELSE LET previous == points[k - 1]
             IN  /\ previous.date = points[k].date - DayMs(1)
                 /\ points[k].return =
                      IF Gt(previous.value, Zero)
                      THEN Mul(Div(Sub(points[k].value, previous.value), previous.value), N(100))
                      ELSE Zero

(***************************************************************************)
(* Properties of the metric calculators.                                   *)
(***************************************************************************)
\* C12: for a user with zero transactions calculateAdvancedMetrics and
\* calculateRiskMetrics return the all-null / zero-count structure: every
\* nullable field is null (bestDay, worstDay and conditionalValueAtRisk
\* included) and totalTradingDays is 0.
C12_NullOnInsufficiency ==
  transactions = <<>> =>
    /\ \A k \in 1..Len(metrics.advanced) :
         LET m == metrics.advanced[k]
         IN  /\ m.sharpeRatio = Null
             /\ m.volatility = Null
             /\ m.maxDrawdown = Null
             /\ m.maxDrawdownPeriod = Null
             /\ m.bestDay = Null
             /\ m.worstDay = Null
             /\ m.totalTradingDays = 0
    /\ \A k \in 1..Len(metrics.risk) :
         LET m == metrics.risk[k]
         IN  /\ m.valueAtRisk95 = Null
             /\ m.valueAtRisk99 = Null
             /\ m.conditionalValueAtRisk = Null
             /\ m.downsideDeviation = Null
             /\ m.sortinoRatio = Null

\* C13: the maxDrawdown that calculateMaxDrawdown reports, and with it
\* calculateAdvancedMetrics, is null or a number >= 0, never negative.
C13_DrawdownNotNegative ==
  \A k \in 1..Len(metrics.advanced) :
    LET maxDrawdown == metrics.advanced[k].maxDrawdown
    IN  maxDrawdown = Null \/ (IsFinite(maxDrawdown) /\ ~Gt(Zero, maxDrawdown))

C13_Witness ==
  /\ metrics.advanced # <<>>
  /\ Len(daily.dailyValues) = MaxPoints
  /\ daily.dailyValues[1].value = Zero
  /\ metrics.advanced[1].maxDrawdown = N(100)

\* the highest value among the first k points of a series
RunningPeak(points, k) ==
  CHOOSE v \in {points[j].value : j \in 1..k} :
    \A j \in 1..k : ~Gt(points[j].value, v)

\* the decline of point k from the running peak, in percent of the peak
DrawdownAt(points, k) ==
  Mul(Div(Sub(RunningPeak(points, k), points[k].value), RunningPeak(points, k)), N(100))

\* C14: calculateMaxDrawdown reports the largest (peak - value) / peak * 100
\* of the series, peak being the highest value seen up to that point, with
\* the period from the date of that peak to the date of the trough; both are
\* null when no value falls below the running peak.
C14_MaxDrawdown ==
  \A i \in 1..Len(metrics.advanced) :
    LET points == daily.dailyValues
        m == metrics.advanced[i]
        falls == {k \in 1..Len(points) : Gt(RunningPeak(points, k), points[k].value)}
    IN  IF falls = {}
        THEN m.maxDrawdown = Null /\ m.maxDrawdownPeriod = Null
        ELSE /\ \A k \in falls : ~Gt(DrawdownAt(points, k), m.maxDrawdown)
             /\ \E k \in falls :
                  /\ m.maxDrawdown = DrawdownAt(points, k)
                  /\ m.maxDrawdownPeriod # Null
                  /\ m.maxDrawdownPeriod.end = points[k].date
                  /\ \E j \in 1..k :
                       /\ points[j].value = RunningPeak(points, k)
                       /\ m.maxDrawdownPeriod.start = points[j].date

\* the series 100, 110, 99, 105: 10% from the 110 day to the 99 day
C14_Witness ==
  /\ metrics.advanced # <<>>
  /\ [k \in 1..Len(daily.dailyValues) |-> daily.dailyValues[k].value] = ScenarioC
  /\ metrics.advanced[1].maxDrawdown = N(10)
  /\ metrics.advanced[1].maxDrawdownPeriod =
       [start |-> daily.dailyValues[2].date, end |-> daily.dailyValues[3].date]

\* the returns of the series, sorted ascending
SortedReturns == SortAscending(Returns(daily.dailyValues))

\* C15: for a non-empty return series calculateRiskMetrics returns two
\* numbers with valueAtRisk99 <= valueAtRisk95.
C15_VarOrdering ==
  \A k \in 1..Len(metrics.risk) :
    LET m == metrics.risk[k]
    IN  Len(daily.dailyValues) > 0 =>
          /\ m.valueAtRisk95 # Null /\ IsFinite(m.valueAtRisk95)
          /\ m.valueAtRisk99 # Null /\ IsFinite(m.valueAtRisk99)
          /\ ~Gt(m.valueAtRisk99, m.valueAtRisk95)

\* C16: for a non-empty series of n returns, valueAtRisk95 is the element
\* at index floor(n * 0.05) of the returns sorted ascending and valueAtRisk99
\* the one at index floor(n * 0.01) (counted from 0), also when it is 0.
C16_VarPercentile ==
  \A k \in 1..Len(metrics.risk) :
    LET m == metrics.risk[k]
        n == Len(daily.dailyValues)
    IN  n > 0 =>
          /\ m.valueAtRisk95 = SortedReturns[((n * 5) \div 100) + 1]
          /\ m.valueAtRisk99 = SortedReturns[(n \div 100) + 1]

\* C17: every comparison calculateBenchmarkComparisons produces has
\* outperformance = portfolioReturn - benchmarkReturn, beta and correlation
\* null, and alpha = portfolioReturn - benchmarkReturn * (beta ?? 1), so
\* alpha equals outperformance.
C17_BenchmarkAlpha ==
  \A i \in 1..Len(metrics.benchmarks) :
    \A k \in 1..Len(metrics.benchmarks[i]) :
      LET c == metrics.benchmarks[i][k]
      IN  /\ c.outperformance = Sub(c.portfolioReturn, c.benchmarkReturn)
          /\ c.beta = Null
          /\ c.correlation = Null
          /\ c.alpha = Sub(c.portfolioReturn,
                           Mul(c.benchmarkReturn, IF c.beta = Null THEN N(1) ELSE c.beta))
          /\ c.alpha = c.outperformance

C17_Witness ==
  /\ metrics.benchmarks # <<>>
  /\ Len(metrics.benchmarks[1]) = 2
  /\ metrics.benchmarks[1][1].benchmarkName = "BTC"
  /\ metrics.benchmarks[1][1].portfolioReturn = N(5)
  /\ metrics.benchmarks[1][1].benchmarkReturn = N(50)
  /\ metrics.benchmarks[1][1].alpha = N(-45)
  /\ metrics.benchmarks[1][2].benchmarkReturn = Zero

(***************************************************************************)
(* Properties of the aggregated report.                                    *)
(***************************************************************************)
\* C18: getEnhancedPortfolioMetrics never propagates an error: whichever
\* sub-computation throws, the call returns a report that has all of
\* summary, timeBasedPerformance, advancedMetrics, benchmarkComparisons and
\* riskMetrics.
C18_AlwaysReport ==
  /\ report.pc # "threw"
  /\ report.pc = "returned" =>
       /\ Len(report.returned) = 1
       /\ DOMAIN report.returned[1] = SectionNames

\* C19: when the computation of a section throws, only that section of the
\* returned report is replaced by its empty form: every section whose
\* computation succeeded keeps its computed result.
C19_SectionIsolation ==
  report.pc = "returned" =>
    \A s \in SectionNames :
      report.state[s] = "fulfilled" => report.returned[1][s] = report.result[s][1]

\* C20: computing a report is read-only: no step of getEnhancedPortfolioMetrics
\* or of a computation it runs changes a persisted field of a holding.
C20_ReportReadOnly ==
  [][report.pc = "all" => holdings' = holdings]_vars

(***************************************************************************)
(* Properties of the rate limiter.                                         *)
(***************************************************************************)
\* C21: any two requests released by rateLimitedApiCall, whatever the
\* interleaving of its concurrent callers, are at least API_RATE_LIMIT apart
C21_RateLimitRespected ==
  Len(limiter.released) = 2 =>
    limiter.released[2] - limiter.released[1] >= API_RATE_LIMIT

(***************************************************************************)
(* Properties of the manual adjustment.                                    *)
(***************************************************************************)
\* C22: when PUT /holdings/:id with currentAmount = x replies 200, the stored
\* currentAmount of the holding is x, the value the response reports
C22_ManualAdjustment ==
  [][(put.pc = "recalc" /\ put'.pc = "replied") =>
       /\ put'.holding.currentAmount = put'.currentAmount
       /\ holdings'[put'.id].currentAmount = put'.currentAmount]_vars

(***************************************************************************)
(* Properties of the transaction ledger.                                   *)
(***************************************************************************)
\* C23: no persisted transaction is dated after now, whichever path created
\* or changed it
C23_NoFutureTransaction ==
  \A k \in 1..Len(transactions) : transactions[k].date <= now

(***************************************************************************)
(* Properties of the portfolio summary.                                    *)
(***************************************************************************)
\* the field of a holding row with null counted as 0, and 0 for no row
FieldOrZero(holding, field) ==
  IF holding.present /\ holding[field] # Null THEN holding[field] ELSE Zero

Total(hs, field) == Add(FieldOrZero(hs["BTC"], field), FieldOrZero(hs["ETH"], field))

\* no holding of the symbol, or one of amount 0 without transactions
Untouched(hs, s) ==
  hs[s].present => hs[s].currentAmount = Zero /\ HoldingTransactions(s) = <<>>

\* C24: the summary getPortfolioSummary returns counts the user's holdings and
\* sums their currentValue, totalCostBasis, unrealizedPnL and realizedPnL with
\* null as 0; with no holdings, or only holdings of amount 0 without
\* transactions, totalValue and totalUnrealizedPnL are 0
C24_SummaryTotals ==
  [][(refresh'.summary # <<>> /\ refresh' # refresh) =>
       LET summary == refresh'.summary[1]
       IN  /\ summary.holdingsCount = Cardinality({s \in Symbols : holdings'[s].present})
           /\ summary.totalValue = Total(holdings', "currentValue")
           /\ summary.totalCostBasis = Total(holdings', "totalCostBasis")
           /\ summary.totalUnrealizedPnL = Total(holdings', "unrealizedPnL")
           /\ summary.totalRealizedPnL = Total(holdings', "realizedPnL")
           /\ (\A s \in Symbols : Untouched(holdings', s)) =>
                summary.totalValue = Zero /\ summary.totalUnrealizedPnL = Zero]_vars

\* a summary over two holdings, one valued and one whose currentValue is null
C24_Witness ==
  /\ refresh.summary # <<>>
  /\ refresh.summary[1].holdingsCount = 2
  /\ Gt(refresh.summary[1].totalValue, Zero)
  /\ \E s \in Symbols : holdings[s].present /\ holdings[s].currentValue = Null

(***************************************************************************)
(* Properties of the alert scheduler and of the alert cooldown.            *)
(***************************************************************************)
\* the cooldown of an alert in milliseconds: 1 hour for a price alert, 6 hours
\* for the others
CooldownMs(alert) == IF alert = "price" THEN MsPerHour ELSE 6 * MsPerHour

PastCooldown(since) == since = Null \/ alerts.clock - since.n >= CooldownMs(AlertIds[alerts.eval.i])

C26_OverlapProtection ==
  [][/\ scheduler'.running <= 1
     /\ scheduler'.evaluationInProgress <=> scheduler'.running = 1
     /\ scheduler.evaluationInProgress =>
          /\ scheduler'.running <= scheduler.running
          /\ alerts'.eval.pc = "find" => alerts.eval.pc = "find"]_vars

\* a runEvaluation was skipped while the evaluation under way is sending a
\* notification
C26_Witness ==
  /\ scheduler.lastRun = "skipped"
  /\ scheduler.evaluationInProgress
  /\ scheduler.running = 1
  /\ alerts.eval.pc = "sending"

(***************************************************************************)
(* Two transaction mutations on the same ledger at once: next to the       *)
(* addTransaction call of rc, a second request runs addTransaction in rcB. *)
(* Nothing in addTransaction or calculateHoldingMetrics orders the two.    *)
(***************************************************************************)
\* prisma.transaction.create of the second request, then its
\* calculateHoldingMetrics call
AddTransactionB(holdingId, type, amount, pricePerToken, totalValue, date) ==
  /\ Yielded
  /\ rcB.pc = "idle"
  /\ Len(transactions) < MaxTx
  /\ holdings[holdingId].present
  /\ transactions' = Append(transactions,
       [holdingId |-> holdingId, type |-> type, amount |-> amount,
        pricePerToken |-> pricePerToken,
        totalValue |-> calculatedTotalValue(amount, pricePerToken, totalValue),
        date |-> date])
  /\ rcB' = [rcIdle EXCEPT !.pc = "read", !.holdingId = holdingId]
  /\ recomputes' = [recomputes EXCEPT ![holdingId] = 0]
  /\ UNCHANGED <<holdings, rc, est, daily, now, metrics, report,
                 limiter, put, scheduler, alerts, refresh>>

\* findUnique answers and the loop runs over the rows it returned, up to the
\* update it issues
RcReadB ==
  /\ Yielded
  /\ rcB.pc = "read"
  /\ LET txs == HoldingTransactions(rcB.holdingId)
     IN  rcB' = [MetricsFold(txs, Len(txs)) EXCEPT
                   !.pc = "write", !.holdingId = rcB.holdingId, !.txs = txs,
                   !.i = Len(txs) + 1]
  /\ UNCHANGED <<holdings, transactions, rc, recomputes, est, daily, now, metrics, report,
                 limiter, put, scheduler, alerts, refresh>>

\* prisma.portfolioHolding.update of the second request
RcWriteB ==
  /\ Yielded
  /\ rcB.pc = "write"
  /\ holdings' = [holdings EXCEPT ![rcB.holdingId] =
       [@ EXCEPT !.currentAmount = rcB.totalAmount,
                 !.averageCostBasis = IF Gt(rcB.totalAmount, Zero)
                                      THEN Div(rcB.totalCostBasis, rcB.totalAmount)
                                      ELSE Null,
                 !.totalCostBasis = rcB.totalCostBasis,
                 !.realizedPnL = rcB.realizedPnL]]
  /\ recomputes' = [recomputes EXCEPT ![rcB.holdingId] = IF @ = 0 THEN 1 ELSE 2]
  /\ rcB' = rcIdle
  /\ UNCHANGED <<transactions, rc, est, daily, now, metrics, report,
                 limiter, put, scheduler, alerts, refresh>>

ConcurrentInputs == {<<"BUY", N(1), N(2)>>, <<"BUY", N(2), N(2)>>, <<"SELL", N(1), N(3)>>}

NextConcurrent ==
  \/ \E s \in LedgerSymbols : CreateHolding(s, Zero)
  \/ \E h \in LedgerSymbols, x \in ConcurrentInputs :
       AddTransaction(h, x[1], x[2], x[3], Null, now)
  \/ RcRead
  \/ RcStep
  \/ RcWrite
  \/ \E h \in LedgerSymbols, x \in ConcurrentInputs :
       AddTransactionB(h, x[1], x[2], x[3], Null, now)
  \/ RcReadB
  \/ RcWriteB

SpecConcurrent == Init /\ [][NextConcurrent]_vars

\* C27: once the concurrent mutations of a holding have completed, its
\* currentAmount, averageCostBasis, totalCostBasis and realizedPnL are the
\* recompute over all the transactions persisted for it
C27_NoLostRecompute ==
  (rc.pc = "idle" /\ rcB.pc = "idle") =>
    \A h \in Symbols :
      LET txs == HoldingTransactions(h)
          acc == MetricsFold(txs, Len(txs))
      IN  txs # <<>> =>
            /\ holdings[h].currentAmount = acc.totalAmount
            /\ holdings[h].totalCostBasis = acc.totalCostBasis
            /\ holdings[h].realizedPnL = acc.realizedPnL
            /\ holdings[h].averageCostBasis =
                 IF Gt(acc.totalAmount, Zero)
                 THEN Div(acc.totalCostBasis, acc.totalAmount)
                 ELSE Null

(***************************************************************************)
(* Further properties of the benchmark comparison and of the risk metrics. *)
(***************************************************************************)
\* C28: every comparison calculateBenchmarkComparisons returns has a finite
\* portfolioReturn, outperformance and alpha, also for a daily series whose
\* first value is 0
C28_BenchmarkFinite ==
  \A i \in 1..Len(metrics.benchmarks) :
    \A k \in 1..Len(metrics.benchmarks[i]) :
      LET c == metrics.benchmarks[i][k]
      IN  IsFinite(c.portfolioReturn) /\ IsFinite(c.outperformance) /\ IsFinite(c.alpha)

PriceFields(holding) ==
  <<holding.currentPrice, holding.currentValue, holding.unrealizedPnL,
    holding.percentageChange>>

PositivePrice(priceData) == priceData # Null /\ Gt(priceData, Zero)

\* C30: a holding for whose symbol updateHoldingPrices obtained no positive
\* price (the fallback 0 of a failed fetch) keeps its stored currentPrice,
\* currentValue, unrealizedPnL and percentageChange and is not counted as
\* updated
C30_FailedPriceKeepsStored ==
  [][refresh' # refresh =>
       /\ \A s \in Symbols :
            (holdings[s].present /\ ~PositivePrice(refresh'.prices[s])) =>
              PriceFields(holdings'[s]) = PriceFields(holdings[s])
       /\ refresh'.stats.updated =
            Cardinality({s \in Symbols :
                           holdings[s].present /\ PositivePrice(refresh'.prices[s])})]_vars

====
